---- MODULE Spec2Model ----
(***************************************************************************)
(* The stub RESP server of xk6-redis (package redis): one test thread      *)
(* that starts the server, registers handlers, inspects it and closes it,  *)
(* the accept-loop goroutine, one goroutine per accepted connection, and   *)
(* the clients that dial, send request frames and hang up.                 *)
(*                                                                         *)
(* A string is a sequence of one-character strings, so that                *)
(* strings.ToUpper is computed and not assumed.                            *)
(***************************************************************************)
EXTENDS Integers, Sequences, FiniteSets, TLC

\* ------------------------------------------------------------------ bounds
MaxConns == 2        \* connections the clients open
MaxFrames == 2       \* frames the clients put on their connections, in all
MaxRegs  == 1        \* RegisterCommandHandler calls made by the test itself
                     \* (Start makes two more)
MaxWriters == 2      \* goroutines that write on one Connection at once
MaxElems == 2        \* elements of an array given to the codec

Conns == 1..MaxConns

\* ----------------------------------------------------------------- strings
LowerRunes == <<"a","b","c","d","e","f","g","h","i","j","k","l","m",
                "n","o","p","q","r","s","t","u","v","w","x","y","z">>
UpperRunes == <<"A","B","C","D","E","F","G","H","I","J","K","L","M",
                "N","O","P","Q","R","S","T","U","V","W","X","Y","Z">>

UpperRune(ch) ==
    IF \E i \in DOMAIN LowerRunes : LowerRunes[i] = ch
    THEN UpperRunes[CHOOSE i \in DOMAIN LowerRunes : LowerRunes[i] = ch]
    ELSE ch

\* strings.ToUpper
ToUpper(s) == [i \in DOMAIN s |-> UpperRune(s[i])]

sCOMMAND == <<"C","O","M","M","A","N","D">>
sPING    == <<"P","I","N","G">>
sPing    == <<"P","i","n","g">>
sping    == <<"p","i","n","g">>
sQUIT    == <<"Q","U","I","T">>
sSET     == <<"S","E","T">>
sset     == <<"s","e","t">>
skey     == <<"k","e","y">>

\* errors.New values and their messages
ErrUnknownCommand == "unknown command"
ErrInvalidSyntax  == "invalid RESP protocol syntax"

\* ------------------------------------------------------ response frames
\* RESPResponseWriter: one record per frame put into the bufio.Writer
WriteSimpleString(s) == [t |-> "+", v |-> s]
WriteError(e)        == [t |-> "-", v |-> e]
WriteBulkString(s)   == [t |-> "$", v |-> s]
WriteArray(arr)      == [t |-> "*", v |-> arr]

\* ------------------------------------------------------- request frames
\* What a client puts on the wire: a RESP array of bulk strings (possibly
\* of zero elements), bytes that scanArray rejects, or the end of the
\* stream when it hangs up.
Req(elems) == [k |-> "array", elems |-> elems]
BadFrame   == [k |-> "bad", elems |-> <<>>]
EOF        == [k |-> "eof", elems |-> <<>>]

ClientFrames == { Req(<<sPing>>), Req(<<sset, skey>>), Req(<<>>), BadFrame }

\* scanArray: the elements of the array, or an error
\* (scanLine fails at the end of the stream)
scanArray(f) ==
    IF f.k = "array" THEN [err |-> FALSE, elements |-> f.elems]
                     ELSE [err |-> TRUE,  elements |-> <<>>]

\* RESPRequestReader.ReadCommand
ReadCommand(f) ==
    LET r == scanArray(f) IN
    IF r.err \/ Len(r.elements) < 1
    THEN [err |-> TRUE, cmd |-> <<>>, args |-> <<>>]
    ELSE [err |-> FALSE, cmd |-> ToUpper(r.elements[1]), args |-> Tail(r.elements)]

\* ---------------------------------------------------------------- the wire
\* A byte stream is a sequence of one-character strings.
CR   == "\r"
LF   == "\n"
CRLF == <<CR, LF>>

snil == <<"n","i","l">>
sOK  == <<"O","K">>

Digits == <<"0","1","2","3","4","5","6","7","8","9">>

RECURSIVE NatDigits(_)
NatDigits(n) ==
    IF n < 10 THEN <<Digits[n + 1]>>
    ELSE Append(NatDigits(n \div 10), Digits[(n % 10) + 1])

\* the verb %d of fmt.Fprintf
Itoa(n) == IF n < 0 THEN <<"-">> \o NatDigits(0 - n) ELSE NatDigits(n)

IsDigit(ch) == \E i \in DOMAIN Digits : Digits[i] = ch
DigitVal(ch) == (CHOOSE i \in DOMAIN Digits : Digits[i] = ch) - 1

RECURSIVE NatVal(_)
NatVal(s) ==
    IF s = <<>> THEN 0
    ELSE 10 * NatVal(SubSeq(s, 1, Len(s) - 1)) + DigitVal(s[Len(s)])

\* strconv.Atoi: an optional sign and then digits, at least one
Atoi(s) ==
    LET signed == s # <<>> /\ s[1] \in {"+", "-"}
        ds     == IF signed THEN Tail(s) ELSE s
    IN
    IF ds = <<>> \/ \E i \in DOMAIN ds : ~IsDigit(ds[i])
    THEN [err |-> TRUE, n |-> 0]
    ELSE [err |-> FALSE, n |-> IF signed /\ s[1] = "-" THEN 0 - NatVal(ds) ELSE NatVal(ds)]

\* unicode.IsSpace, on the characters of the model
IsSpace(ch) == ch \in {" ", "\t", "\n", "\f", "\r"}

inlineLineEnds(s) == [i \in DOMAIN s |-> IF s[i] \in {CR, LF} THEN " " ELSE s[i]]

\* inline: every white space becomes a blank
inline(s) == [i \in DOMAIN s |-> IF IsSpace(s[i]) THEN " " ELSE s[i]]

\* the two write operations that have no frame record above
WriteInteger(n) == [t |-> ":", v |-> n]
WriteNull       == [t |-> "null", v |-> <<>>]

\* Connection.WriteOK
WriteOK == WriteSimpleString(sOK)

\* what one fmt.Fprintf call of the RESPResponseWriter puts into the buffer
BulkStringBytes(s) == <<"$">> \o Itoa(Len(s)) \o CRLF \o s \o CRLF
NullBytes          == <<"$", "-", "1", CR, LF>>
LenBytes(n)        == <<"*">> \o Itoa(n) \o CRLF

ElementBytesEmptyOnly(s) == IF s = <<>> THEN NullBytes ELSE BulkStringBytes(s)

\* WriteArray, for one element: a null for "" and for "nil"
ElementBytes(s) == IF s = <<>> \/ s = snil THEN NullBytes ELSE BulkStringBytes(s)

\* the Fprintf calls one write operation makes, in order (the payloads are
\* strings as sequences of characters)
Fprintfs(call) ==
    CASE call.t = "+"    -> << <<"+">> \o inline(call.v) \o CRLF >>
      [] call.t = "-"    -> << <<"-">> \o inline(call.v) \o CRLF >>
      [] call.t = ":"    -> << <<":">> \o Itoa(call.v) \o CRLF >>
      [] call.t = "$"    -> << BulkStringBytes(call.v) >>
      [] call.t = "null" -> << NullBytes >>
      [] call.t = "*"    -> <<LenBytes(Len(call.v))>> \o
                            [i \in DOMAIN call.v |-> ElementBytes(call.v[i])]

RECURSIVE Flatten(_)
Flatten(chunks) == IF chunks = <<>> THEN <<>> ELSE Head(chunks) \o Flatten(Tail(chunks))

\* the bytes of one write operation
Encode(call) == Flatten(Fprintfs(call))

\* results of the scan functions: an error ("nil" for none), a value, and
\* the rest of the stream
ScanFail(e) == [err |-> e, val |-> <<>>, rest |-> <<>>]
ScanOk(v, rest) == [err |-> "nil", val |-> v, rest |-> rest]

\* bufio.Reader.ReadString('\n'): the bytes up to and including the first
\* LF; at the end of the stream without one, io.EOF
ReadString(r) ==
    LET S == {i \in DOMAIN r : r[i] = LF} IN
    IF S = {} THEN ScanFail("EOF")
    ELSE LET k == CHOOSE i \in S : \A j \in S : i <= j
         IN ScanOk(SubSeq(r, 1, k), SubSeq(r, k + 1, Len(r)))

scanLine(r) ==
    LET l == ReadString(r) IN
    IF l.err # "nil" THEN l
    ELSE IF Len(l.val) < 3 THEN ScanFail(ErrInvalidSyntax)
    ELSE l

scanBulkStringKeepCRLF(r) ==
    LET l == scanLine(r) IN
    IF l.err # "nil" THEN l
    ELSE IF l.val[1] # "$" THEN ScanFail(ErrInvalidSyntax)
    ELSE LET a == Atoi(SubSeq(l.val, 2, Len(l.val) - 2)) IN
         IF a.err THEN ScanFail("Atoi")
         ELSE IF a.n < 0 THEN ScanOk(l.val, l.rest)
         ELSE IF Len(l.rest) < a.n + 2 THEN ScanFail("EOF")
         ELSE ScanOk(SubSeq(l.rest, 1, a.n + 2), SubSeq(l.rest, a.n + 3, Len(l.rest)))

scanBulkStringByLine(r) ==
    LET l == scanLine(r) IN
    IF l.err # "nil" THEN l
    ELSE IF l.val[1] # "$" THEN ScanFail(ErrInvalidSyntax)
    ELSE LET a == Atoi(SubSeq(l.val, 2, Len(l.val) - 2)) IN
         IF a.err THEN ScanFail("Atoi")
         ELSE IF a.n < 0 THEN ScanOk(l.val, l.rest)
         ELSE LET d == ReadString(l.rest) IN
              IF d.err # "nil" THEN d
              ELSE ScanOk(SubSeq(d.val, 1, Len(d.val) - 2), d.rest)

scanBulkStringShort(r) ==
    LET l == scanLine(r) IN
    IF l.err # "nil" THEN l
    ELSE IF l.val[1] # "$" THEN ScanFail(ErrInvalidSyntax)
    ELSE LET a == Atoi(SubSeq(l.val, 2, Len(l.val) - 2)) IN
         IF a.err THEN ScanFail("Atoi")
         ELSE IF a.n < 0 THEN ScanOk(l.val, l.rest)
         ELSE IF Len(l.rest) < a.n + 2 THEN ScanOk(l.rest, <<>>)
         ELSE ScanOk(SubSeq(l.rest, 1, a.n), SubSeq(l.rest, a.n + 3, Len(l.rest)))

scanBulkString(r) ==
    LET l == scanLine(r) IN
    IF l.err # "nil" THEN l
    ELSE IF l.val[1] # "$" THEN ScanFail(ErrInvalidSyntax)
    ELSE LET a == Atoi(SubSeq(l.val, 2, Len(l.val) - 2)) IN
         IF a.err THEN ScanFail("Atoi")
         ELSE IF a.n < 0 THEN ScanOk(l.val, l.rest)
         ELSE IF Len(l.rest) < a.n + 2 THEN ScanFail("EOF")
         ELSE ScanOk(SubSeq(l.rest, 1, a.n), SubSeq(l.rest, a.n + 3, Len(l.rest)))

\* the loop of scanArray: for ; length > 0; length-- { scanBulkString }
RECURSIVE scanElements(_, _)
scanElements(r, length) ==
    IF length <= 0 THEN ScanOk(<<>>, r)
    ELSE LET next == scanBulkString(r) IN
         IF next.err # "nil" THEN next
         ELSE LET more == scanElements(next.rest, length - 1) IN
              IF more.err # "nil" THEN more
              ELSE ScanOk(<<next.val>> \o more.val, more.rest)

\* scanArray, on bytes
scanArrayBytes(r) ==
    LET l == scanLine(r) IN
    IF l.err # "nil" THEN l
    ELSE IF l.val[1] # "*" THEN ScanFail(ErrInvalidSyntax)
    ELSE LET a == Atoi(SubSeq(l.val, 2, Len(l.val) - 2)) IN
         IF a.err THEN ScanFail("Atoi")
         ELSE scanElements(l.rest, a.n)

ReadCommandBytesUpperAll(r) ==
    LET e == scanArrayBytes(r) IN
    IF e.err # "nil" THEN [err |-> e.err, cmd |-> <<>>, args |-> <<>>]
    ELSE IF Len(e.val) < 1 THEN [err |-> ErrInvalidSyntax, cmd |-> <<>>, args |-> <<>>]
    ELSE [err |-> "nil", cmd |-> ToUpper(e.val[1]),
          args |-> [i \in 1..(Len(e.val) - 1) |-> ToUpper(e.val[i + 1])]]

\* RESPRequestReader.ReadCommand, on bytes
ReadCommandBytes(r) ==
    LET e == scanArrayBytes(r) IN
    IF e.err # "nil" THEN [err |-> e.err, cmd |-> <<>>, args |-> <<>>]
    ELSE IF Len(e.val) < 1 THEN [err |-> ErrInvalidSyntax, cmd |-> <<>>, args |-> <<>>]
    ELSE [err |-> "nil", cmd |-> ToUpper(e.val[1]), args |-> Tail(e.val)]

\* ---------------------------------------------------------------- handlers
\* Handler functions are named; "none" is the zero value of handlerFn.
BaselineHandlers == {"hCommand", "hPing"}
UserHandlers     == {"h1", "h2"}
RegNames         == {sSET, sping}

HandlerWritesPongOnly(h, args) ==
    CASE h = "hCommand" -> <<WriteArray(<<"OK">>)>>
      [] h = "hPing"    -> <<WriteSimpleString("PONG")>>
      [] h = "hQuit"    -> <<WriteSimpleString("OK")>>
      [] OTHER          -> <<WriteSimpleString(h)>>

\* What a handler writes on the connection when it is called with args
HandlerWrites(h, args) ==
    CASE h = "hCommand" -> <<WriteArray(<<"OK">>)>>
      [] h = "hPing"    -> IF Len(args) = 1 THEN <<WriteBulkString(args[1])>>
                                            ELSE <<WriteSimpleString("PONG")>>
      [] h = "hQuit"    -> <<WriteSimpleString("OK")>>
      [] OTHER          -> <<WriteSimpleString(h)>>

\* whether a handler calls c.Close() on its connection (the QUIT handler of
\* the plaintext server does, after c.WriteOK())
HandlerCloses(h) == h = "hQuit"

\* ------------------------------------------------------------------- state
VARIABLES
    test,               \* the test thread: [pc, name, h, ret] (pending RegisterCommandHandler call)
    listener,           \* rs.listener: "nil", "open" or "closed" (the net.Listener it points to)
    listenerSet,        \* rs.listener # nil
    mu,                 \* rs.Mutex: Free, or the task that holds it
    waitGroup,          \* rs.waitGroup counter
    connections,        \* rs.connections
    connectionCount,    \* rs.connectionCount
    handlers,           \* rs.handlers: upper-cased name -> handler
    processedCommands,  \* rs.processedCommands
    commandsHistory,    \* rs.commandsHistory
    acceptLoop,         \* the goroutine of Start: [pc, nc, todo]
    conn,               \* per connection goroutine: [pc, cmd, args, handlerFn, writer,
                        \* closed]
    net,                \* per transport: [open, sent, buffered, read, out]
    crashed,            \* the process has died of an unrecovered panic
    \* history variables (not program state)
    regLog,             \* every RegisterCommandHandler call that completed: <<name, handler>>
    dispatched,         \* per history entry: [c, st, h]: the connection it came from,
                        \* "pending", "handled" or "unknown" (what its lookup found)
                        \* and the handler found
    track,              \* per connection: idx (its last history entry), invoked (handler
                        \* calls for the current request), regs (Len(regLog) at its
                        \* lookup), served (requests flushed), failure ("none", "io",
                        \* "syntax") and wasOpen (the transport, when parsing failed)
    \* state of the specifications of the Connection and of the codec alone
    wconn,              \* one Connection and the goroutines that write on it
    codec,              \* the codec, applied to one input
    \* state of the specification of the option parsing of the client
    parse               \* readOptions, applied to one options object

vars == <<test, listener, listenerSet, mu, waitGroup, connections, connectionCount,
          handlers, processedCommands, commandsHistory, acceptLoop, conn, net,
          crashed, regLog, dispatched, track, wconn, codec, parse>>

serverVars == <<listener, listenerSet, waitGroup, connections, connectionCount,
                handlers, processedCommands, commandsHistory>>
ghostVars  == <<regLog, dispatched, track>>
auxVars    == <<wconn, codec, parse>>

\* tasks, as holders of rs.Mutex
Free       == <<"free">>
TestTask   == <<"test">>
AcceptTask == <<"accept">>
ConnTask(c) == <<"conn", c>>

\* the variables of the server, its clients and their history
stubVars == <<test, listener, listenerSet, mu, waitGroup, connections, connectionCount,
              handlers, processedCommands, commandsHistory, acceptLoop, conn, net,
              crashed, regLog, dispatched, track>>

\* what wconn, codec and parse hold where there is no writer and no input
NoWriters == [mutex |-> 0, writer |-> <<>>, order |-> <<>>, task |-> <<>>]
NoCodec   == [pc |-> "off", arr |-> <<>>, next |-> <<>>, wire |-> <<>>, res |-> <<>>]
NoParse   == [pc |-> "off"]

\* NewStubServer, and nothing dialled yet
InitServer ==
    /\ test = [pc |-> "new", name |-> <<>>, h |-> "none", ret |-> "new"]
    /\ listener = "nil"
    /\ listenerSet = FALSE
    /\ mu = Free
    /\ waitGroup = 0
    /\ connections = {}
    /\ connectionCount = 0
    /\ handlers = << >>
    /\ processedCommands = 0
    /\ commandsHistory = << >>
    /\ acceptLoop = [pc |-> "none", nc |-> 0, todo |-> {}]
    /\ conn = [c \in Conns |-> [pc |-> "idle", cmd |-> <<>>, args |-> <<>>,
                                handlerFn |-> "none", writer |-> <<>>,
                                closed |-> FALSE]]
    /\ net = [c \in Conns |-> [open |-> FALSE, sent |-> <<>>,
                               buffered |-> 0, read |-> 0, out |-> <<>>]]
    /\ crashed = FALSE
    /\ regLog = << >>
    /\ dispatched = << >>
    /\ track = [c \in Conns |-> [idx |-> 0, invoked |-> 0, regs |-> 0, served |-> 0,
                                 failure |-> "none", wasOpen |-> FALSE]]

Init ==
    /\ InitServer
    /\ wconn = NoWriters
    /\ codec = NoCodec
    /\ parse = NoParse

\* ------------------------------------------------------------ the test thread
Call(name, h, ret) == [pc |-> "register", name |-> name, h |-> h, ret |-> ret]

\* Start, up to the first RegisterCommandHandler: listen, record the
\* listener, waitGroup.Add(1), go func() { listenAndServe; close all }
Start ==
    /\ ~crashed /\ test.pc = "new"
    /\ listener' = "open"
    /\ listenerSet' = TRUE
    /\ waitGroup' = waitGroup + 1
    /\ acceptLoop' = [acceptLoop EXCEPT !.pc = "accept"]
    /\ test' = Call(sCOMMAND, "hCommand", "startPing")
    /\ UNCHANGED <<mu, connections, connectionCount, handlers, processedCommands,
                   commandsHistory, conn, net, crashed, ghostVars>>
    /\ UNCHANGED auxVars

\* Start: the second baseline registration
StartPing ==
    /\ ~crashed /\ test.pc = "startPing"
    /\ test' = Call(sPING, "hPing", "run")
    /\ UNCHANGED <<serverVars, mu, acceptLoop, conn, net, crashed, ghostVars>>
    /\ UNCHANGED auxVars

\* rs.handlers[key] = handler
SetHandler(hs, key, h) ==
    [k \in (DOMAIN hs) \cup {key} |-> IF k = key THEN h ELSE hs[k]]

RegisterKeyRaw(command) == command

\* the key RegisterCommandHandler stores a handler under
RegisterKey(command) == ToUpper(command)

RegisterCommandHandlerLockNoWait ==
    /\ ~crashed /\ test.pc = "register"
    /\ mu' = TestTask
    /\ test' = [test EXCEPT !.pc = "registerLocked"]
    /\ UNCHANGED <<serverVars, acceptLoop, conn, net, crashed, ghostVars>>
    /\ UNCHANGED auxVars

\* RegisterCommandHandler: rs.Lock()
RegisterCommandHandlerLock ==
    /\ ~crashed /\ test.pc = "register" /\ mu = Free
    /\ mu' = TestTask
    /\ test' = [test EXCEPT !.pc = "registerLocked"]
    /\ UNCHANGED <<serverVars, acceptLoop, conn, net, crashed, ghostVars>>
    /\ UNCHANGED auxVars

\* RegisterCommandHandler: the assignment and the deferred rs.Unlock()
RegisterCommandHandler ==
    /\ ~crashed /\ test.pc = "registerLocked"
    /\ handlers' = SetHandler(handlers, RegisterKey(test.name), test.h)
    /\ regLog' = Append(regLog, <<test.name, test.h>>)
    /\ mu' = Free
    /\ test' = [pc |-> test.ret, name |-> <<>>, h |-> "none", ret |-> test.ret]
    /\ UNCHANGED <<listener, listenerSet, waitGroup, connections, connectionCount,
                   processedCommands, commandsHistory, acceptLoop, conn, net,
                   crashed, dispatched, track>>
    /\ UNCHANGED auxVars

UserHandlerNames == <<"h1", "h2", "h3", "h4">>
UserRegs == Cardinality({i \in DOMAIN regLog : regLog[i][2] \notin BaselineHandlers})

\* the test registers its next handler under a name of its choice
CallRegister(name) ==
    /\ ~crashed /\ test.pc = "run" /\ UserRegs < MaxRegs
    /\ test' = Call(name, UserHandlerNames[UserRegs + 1], "run")
    /\ UNCHANGED <<serverVars, mu, acceptLoop, conn, net, crashed, ghostVars>>
    /\ UNCHANGED auxVars

IntrospectionLockSkipped ==
    /\ ~crashed /\ test.pc = "run"
    /\ test' = [test EXCEPT !.pc = "introspect"]
    /\ UNCHANGED <<serverVars, mu, acceptLoop, conn, net, crashed, ghostVars>>
    /\ UNCHANGED auxVars

\* HandledCommandsCount, HandledConnectionsCount, GotCommands: rs.Lock()
IntrospectionLock ==
    /\ ~crashed /\ test.pc = "run" /\ mu = Free
    /\ mu' = TestTask
    /\ test' = [test EXCEPT !.pc = "introspect"]
    /\ UNCHANGED <<serverVars, acceptLoop, conn, net, crashed, ghostVars>>
    /\ UNCHANGED auxVars

\* ... the read and the deferred rs.Unlock()
Introspection ==
    /\ ~crashed /\ test.pc = "introspect"
    /\ mu' = Free
    /\ test' = [test EXCEPT !.pc = "run"]
    /\ UNCHANGED <<serverVars, acceptLoop, conn, net, crashed, ghostVars>>
    /\ UNCHANGED auxVars

\* what the introspection calls return
HandledCommandsCount    == processedCommands
HandledConnectionsCount == connectionCount
GotCommands             == commandsHistory

\* Close: rs.Lock()
CloseLock ==
    /\ ~crashed /\ test.pc \in {"new", "run"} /\ mu = Free
    /\ mu' = TestTask
    /\ test' = [test EXCEPT !.pc = "closeLocked"]
    /\ UNCHANGED <<serverVars, acceptLoop, conn, net, crashed, ghostVars>>
    /\ UNCHANGED auxVars

\* Close: close the listener if there is one, forget it, rs.Unlock()
Close ==
    /\ ~crashed /\ test.pc = "closeLocked"
    /\ listener' = IF listenerSet THEN "closed" ELSE listener
    /\ listenerSet' = FALSE
    /\ mu' = Free
    /\ test' = [test EXCEPT !.pc = "wait"]
    /\ UNCHANGED <<waitGroup, connections, connectionCount, handlers,
                   processedCommands, commandsHistory, acceptLoop, conn, net,
                   crashed, ghostVars>>
    /\ UNCHANGED auxVars

\* Close: rs.waitGroup.Wait() returns
CloseWait ==
    /\ ~crashed /\ test.pc = "wait"
    /\ waitGroup = 0
    /\ test' = [test EXCEPT !.pc = "closed"]
    /\ UNCHANGED <<serverVars, mu, acceptLoop, conn, net, crashed, ghostVars>>
    /\ UNCHANGED auxVars

\* ---------------------------------------------------------- the accept loop
\* a client has dialled c: its transport exists, or its task has run
Dialled(c) == net[c].open \/ conn[c].pc # "idle"

AcceptNoAdd(c) ==
    /\ ~crashed /\ acceptLoop.pc = "accept" /\ listener = "open"
    /\ ~Dialled(c) /\ \A d \in Conns : d < c => Dialled(d)
    /\ net' = [net EXCEPT ![c].open = TRUE]
    /\ acceptLoop' = [acceptLoop EXCEPT !.pc = "trackLock", !.nc = c]
    /\ UNCHANGED <<test, listener, listenerSet, mu, waitGroup, connections,
                   connectionCount, handlers, processedCommands, commandsHistory,
                   conn, crashed, ghostVars>>
    /\ UNCHANGED auxVars

\* listenAndServe: l.Accept() returns the next connection; waitGroup.Add(1)
Accept(c) ==
    /\ ~crashed /\ acceptLoop.pc = "accept" /\ listener = "open"
    /\ ~Dialled(c) /\ \A d \in Conns : d < c => Dialled(d)
    /\ net' = [net EXCEPT ![c].open = TRUE]
    /\ waitGroup' = waitGroup + 1
    /\ acceptLoop' = [acceptLoop EXCEPT !.pc = "trackLock", !.nc = c]
    /\ UNCHANGED <<test, listener, listenerSet, mu, connections, connectionCount,
                   handlers, processedCommands, commandsHistory, conn, crashed,
                   ghostVars>>
    /\ UNCHANGED auxVars

\* listenAndServe: rs.Lock() after an accept
TrackLock ==
    /\ ~crashed /\ acceptLoop.pc = "trackLock" /\ mu = Free
    /\ mu' = AcceptTask
    /\ acceptLoop' = [acceptLoop EXCEPT !.pc = "track"]
    /\ UNCHANGED <<test, serverVars, conn, net, crashed, ghostVars>>
    /\ UNCHANGED auxVars

TrackCountOnly ==
    /\ ~crashed /\ acceptLoop.pc = "track"
    /\ connectionCount' = connectionCount + 1
    /\ mu' = Free
    /\ acceptLoop' = [acceptLoop EXCEPT !.pc = "spawn"]
    /\ UNCHANGED <<test, listener, listenerSet, waitGroup, connections, handlers,
                   processedCommands, commandsHistory, conn, net, crashed, ghostVars>>
    /\ UNCHANGED auxVars

\* listenAndServe: rs.connections[nc] = struct{}{}; rs.connectionCount++; rs.Unlock()
Track ==
    /\ ~crashed /\ acceptLoop.pc = "track"
    /\ connections' = connections \cup {acceptLoop.nc}
    /\ connectionCount' = connectionCount + 1
    /\ mu' = Free
    /\ acceptLoop' = [acceptLoop EXCEPT !.pc = "spawn"]
    /\ UNCHANGED <<test, listener, listenerSet, waitGroup, handlers,
                   processedCommands, commandsHistory, conn, net, crashed, ghostVars>>
    /\ UNCHANGED auxVars

\* listenAndServe: go func() { ... rs.handleConnection(nc) ... }()
Spawn ==
    /\ ~crashed /\ acceptLoop.pc = "spawn"
    /\ conn' = [conn EXCEPT ![acceptLoop.nc].pc = "parse"]
    /\ acceptLoop' = [acceptLoop EXCEPT !.pc = "accept", !.nc = 0]
    /\ UNCHANGED <<test, serverVars, mu, net, crashed, ghostVars>>
    /\ UNCHANGED auxVars

\* listenAndServe: l.Accept() fails on the closed listener; return
AcceptError ==
    /\ ~crashed /\ acceptLoop.pc = "accept" /\ listener = "closed"
    /\ acceptLoop' = [acceptLoop EXCEPT !.pc = "sweepLock"]
    /\ UNCHANGED <<test, serverVars, mu, conn, net, crashed, ghostVars>>
    /\ UNCHANGED auxVars

\* the goroutine of Start: rs.Lock() before closing the tracked connections
SweepLock ==
    /\ ~crashed /\ acceptLoop.pc = "sweepLock" /\ mu = Free
    /\ mu' = AcceptTask
    /\ acceptLoop' = [acceptLoop EXCEPT !.pc = "sweep", !.todo = connections]
    /\ UNCHANGED <<test, serverVars, conn, net, crashed, ghostVars>>
    /\ UNCHANGED auxVars

\* the goroutine of Start: c.Close() for one c of rs.connections
SweepClose(c) ==
    /\ ~crashed /\ acceptLoop.pc = "sweep" /\ c \in acceptLoop.todo
    /\ net' = [net EXCEPT ![c].open = FALSE]
    /\ acceptLoop' = [acceptLoop EXCEPT !.todo = @ \ {c}]
    /\ UNCHANGED <<test, serverVars, mu, conn, crashed, ghostVars>>
    /\ UNCHANGED auxVars

\* the goroutine of Start: rs.Unlock(), return, the deferred waitGroup.Done()
SweepDone ==
    /\ ~crashed /\ acceptLoop.pc = "sweep" /\ acceptLoop.todo = {}
    /\ mu' = Free
    /\ waitGroup' = waitGroup - 1
    /\ acceptLoop' = [acceptLoop EXCEPT !.pc = "exited"]
    /\ UNCHANGED <<test, listener, listenerSet, connections, connectionCount,
                   handlers, processedCommands, commandsHistory, conn, net,
                   crashed, ghostVars>>
    /\ UNCHANGED auxVars

\* ------------------------------------------------------------------ clients
RECURSIVE SentUpTo(_)
SentUpTo(c) == IF c = 0 THEN 0 ELSE Len(net[c].sent) + SentUpTo(c - 1)
TotalSent == SentUpTo(MaxConns)

\* the client has hung up: the end of the stream is the last thing it sent
HungUp(c) == net[c].sent # <<>> /\ net[c].sent[Len(net[c].sent)] = EOF

\* a client writes one more frame on its connection, while the server has
\* not closed it
ClientSend(c, f) ==
    /\ ~crashed /\ net[c].open /\ ~HungUp(c)
    /\ TotalSent < MaxFrames
    /\ net' = [net EXCEPT ![c].sent = Append(@, f)]
    /\ UNCHANGED <<test, serverVars, mu, acceptLoop, conn, crashed, ghostVars>>
    /\ UNCHANGED auxVars

\* a client hangs up
ClientClose(c) ==
    /\ ~crashed /\ net[c].open /\ ~HungUp(c)
    /\ TotalSent < MaxFrames
    /\ net' = [net EXCEPT ![c].sent = Append(@, EOF)]
    /\ UNCHANGED <<test, serverVars, mu, acceptLoop, conn, crashed, ghostVars>>
    /\ UNCHANGED auxVars

\* ------------------------------------------------- the connection goroutines
OnParseErrorContinue(cn) ==
    [cn EXCEPT !.writer = Append(@, WriteError(ErrInvalidSyntax)), !.pc = "parse"]

OnParseErrorFlush(cn) ==
    [cn EXCEPT !.writer = Append(@, WriteError(ErrInvalidSyntax)), !.pc = "flush"]

\* handleConnection, on a ParseRequest error: WriteError(ErrInvalidSyntax); return
OnParseError(cn) ==
    [cn EXCEPT !.writer = Append(@, WriteError(ErrInvalidSyntax)),
               !.pc = "untrackLock"]

\* handleConnection: connection.ParseRequest() and the test of its error.
\* The bufio.Reader serves the frames it holds; when it holds none it reads
\* the transport, which gives everything that has arrived, or fails when the
\* transport was closed or the client has hung up.
ParseRequest(c) ==
    LET n      == net[c]
        inBuf  == n.read < n.buffered
        onWire == n.open /\ n.buffered < Len(n.sent)
        ioErr  == ~inBuf /\ ~n.open
        f      == n.sent[n.read + 1]
        r      == ReadCommand(f)
    IN
    /\ ~crashed /\ conn[c].pc = "parse"
    /\ \/ /\ inBuf \/ onWire
          /\ net' = [net EXCEPT ![c].read = n.read + 1,
                                ![c].buffered = IF inBuf THEN n.buffered ELSE Len(n.sent)]
          /\ IF r.err
             THEN /\ conn' = [conn EXCEPT ![c] = OnParseError(@)]
                  /\ track' = [track EXCEPT ![c].failure =
                                                IF f = EOF THEN "io" ELSE "syntax",
                                            ![c].wasOpen = n.open]
             ELSE /\ conn' = [conn EXCEPT ![c].cmd = r.cmd, ![c].args = r.args,
                                          ![c].handlerFn = "none",
                                          ![c].pc = "recordLock"]
                  /\ track' = [track EXCEPT ![c].invoked = 0]
       \/ /\ ioErr
          /\ conn' = [conn EXCEPT ![c] = OnParseError(@)]
          /\ track' = [track EXCEPT ![c].failure = "io"]
          /\ net' = net
    /\ UNCHANGED <<test, serverVars, mu, acceptLoop, crashed, regLog, dispatched>>
    /\ UNCHANGED auxVars

\* handleConnection: rs.Lock() before recording the request
RecordLock(c) ==
    /\ ~crashed /\ conn[c].pc = "recordLock" /\ mu = Free
    /\ mu' = ConnTask(c)
    /\ conn' = [conn EXCEPT ![c].pc = "record"]
    /\ UNCHANGED <<test, serverVars, acceptLoop, net, crashed, ghostVars>>
    /\ UNCHANGED auxVars

RecordRequestPrepend(history, request) == <<request>> \o history
RecordRequestReplace(history, request) == <<request>>
RecordRequestTwice(history, request) == Append(Append(history, request), request)

\* rs.commandsHistory = append(rs.commandsHistory, request)
RecordRequest(history, request) == Append(history, request)

RecordSkipped(c) ==
    /\ ~crashed /\ conn[c].pc = "record"
    /\ mu' = Free
    /\ conn' = [conn EXCEPT ![c].pc = "lookupLock"]
    /\ UNCHANGED <<test, serverVars, acceptLoop, net, crashed, ghostVars>>
    /\ UNCHANGED auxVars

\* handleConnection: request := append([]string{command}, args...); record; rs.Unlock()
Record(c) ==
    /\ ~crashed /\ conn[c].pc = "record"
    /\ commandsHistory' = RecordRequest(commandsHistory, <<conn[c].cmd>> \o conn[c].args)
    /\ dispatched' = Append(dispatched, [c |-> c, st |-> "pending", h |-> "none"])
    /\ track' = [track EXCEPT ![c].idx = Len(dispatched) + 1]
    /\ mu' = Free
    /\ conn' = [conn EXCEPT ![c].pc = "lookupLock"]
    /\ UNCHANGED <<test, listener, listenerSet, waitGroup, connections,
                   connectionCount, handlers, processedCommands, acceptLoop, net,
                   crashed, regLog>>
    /\ UNCHANGED auxVars

\* handleCommand: the first rs.Lock()
LookupLock(c) ==
    /\ ~crashed /\ conn[c].pc = "lookupLock" /\ mu = Free
    /\ mu' = ConnTask(c)
    /\ conn' = [conn EXCEPT ![c].pc = "lookup"]
    /\ UNCHANGED <<test, serverVars, acceptLoop, net, crashed, ghostVars>>
    /\ UNCHANGED auxVars

\* handlerFn, ok := rs.handlers[cmd]  ("none" stands for !ok)
LookupHandler(hs, cmd) == IF cmd \in DOMAIN hs THEN hs[cmd] ELSE "none"

OnUnknownCommandNoReturn(cn) ==
    [cn EXCEPT !.writer = Append(@, WriteError(ErrUnknownCommand)), !.pc = "countLock"]
OnUnknownCommandFatal(cn) ==
    [cn EXCEPT !.writer = Append(@, WriteError(ErrUnknownCommand)), !.pc = "untrackLock"]

\* handleCommand, when !ok: c.WriteError(ErrUnknownCommand); return
OnUnknownCommand(cn) ==
    [cn EXCEPT !.writer = Append(@, WriteError(ErrUnknownCommand)), !.pc = "flush"]

\* handleCommand: the lookup, rs.Unlock(), and the test of ok
Lookup(c) ==
    LET fn == LookupHandler(handlers, conn[c].cmd) IN
    /\ ~crashed /\ conn[c].pc = "lookup"
    /\ mu' = Free
    /\ conn' = [conn EXCEPT ![c] =
                  IF fn = "none" THEN OnUnknownCommand(@)
                  ELSE [@ EXCEPT !.handlerFn = fn, !.pc = "countLock"]]
    /\ dispatched' = [dispatched EXCEPT ![track[c].idx].st =
                        IF fn = "none" THEN "unknown" ELSE "handled",
                                        ![track[c].idx].h = fn]
    /\ track' = [track EXCEPT ![c].regs = Len(regLog)]
    /\ UNCHANGED <<test, serverVars, acceptLoop, net, crashed, regLog>>
    /\ UNCHANGED auxVars

CountLockSkipped(c) ==
    /\ ~crashed /\ conn[c].pc = "countLock"
    /\ conn' = [conn EXCEPT ![c].pc = "count"]
    /\ UNCHANGED <<test, serverVars, mu, acceptLoop, net, crashed, ghostVars>>
    /\ UNCHANGED auxVars

\* handleCommand: the second rs.Lock()
CountLock(c) ==
    /\ ~crashed /\ conn[c].pc = "countLock" /\ mu = Free
    /\ mu' = ConnTask(c)
    /\ conn' = [conn EXCEPT ![c].pc = "count"]
    /\ UNCHANGED <<test, serverVars, acceptLoop, net, crashed, ghostVars>>
    /\ UNCHANGED auxVars

CountHoldingLock(c) ==
    /\ ~crashed /\ conn[c].pc = "count"
    /\ processedCommands' = processedCommands + 1
    /\ mu' = mu
    /\ conn' = [conn EXCEPT ![c].pc = "handler"]
    /\ UNCHANGED <<test, listener, listenerSet, waitGroup, connections,
                   connectionCount, handlers, commandsHistory, acceptLoop, net,
                   crashed, ghostVars>>
    /\ UNCHANGED auxVars

\* handleCommand: rs.processedCommands++; rs.Unlock()
Count(c) ==
    /\ ~crashed /\ conn[c].pc = "count"
    /\ processedCommands' = processedCommands + 1
    /\ mu' = Free
    /\ conn' = [conn EXCEPT ![c].pc = "handler"]
    /\ UNCHANGED <<test, listener, listenerSet, waitGroup, connections,
                   connectionCount, handlers, commandsHistory, acceptLoop, net,
                   crashed, ghostVars>>
    /\ UNCHANGED auxVars

HandlerOnSharedWriter(c) ==
    /\ ~crashed /\ conn[c].pc = "handler"
    /\ conn' = [d \in Conns |->
                  [conn[d] EXCEPT
                     !.writer = IF d = 1 THEN @ \o HandlerWrites(conn[c].handlerFn, conn[c].args)
                                ELSE @,
                     !.pc = IF d = c THEN "flush" ELSE @]]
    /\ track' = [track EXCEPT ![c].invoked = @ + 1]
    /\ UNCHANGED <<test, serverVars, mu, acceptLoop, net, crashed, regLog, dispatched>>
    /\ UNCHANGED auxVars

\* handleCommand: handlerFn(c, args), which returns
Handler(c) ==
    /\ ~crashed /\ conn[c].pc = "handler"
    /\ conn' = [conn EXCEPT ![c].writer = @ \o HandlerWrites(conn[c].handlerFn, conn[c].args),
                            ![c].closed = @ \/ HandlerCloses(conn[c].handlerFn),
                            ![c].pc = "flush"]
    /\ track' = [track EXCEPT ![c].invoked = @ + 1]
    /\ UNCHANGED <<test, serverVars, mu, acceptLoop, net, crashed, regLog, dispatched>>
    /\ UNCHANGED auxVars

FlushLater(c) ==
    /\ ~crashed /\ conn[c].pc = "flush"
    /\ conn' = [conn EXCEPT ![c].pc = "parse"]
    /\ UNCHANGED <<test, serverVars, mu, acceptLoop, net, crashed, ghostVars>>
    /\ UNCHANGED auxVars

\* handleConnection: connection.Flush(). bufio.Writer.Flush writes nothing
\* when the buffer is empty; a write on a transport the server has closed
\* fails, and Flush panics: the deferred nc.Close() and waitGroup.Done() of
\* the goroutine run, and then the runtime ends the process (FatalExit).
Flush(c) ==
    /\ ~crashed /\ conn[c].pc = "flush"
    /\ IF conn[c].writer = <<>> \/ net[c].open
       THEN /\ net' = [net EXCEPT ![c].out = @ \o conn[c].writer]
            /\ conn' = [conn EXCEPT ![c].writer = <<>>, ![c].pc = "parse"]
            /\ track' = [track EXCEPT ![c].served = @ + 1]
            /\ UNCHANGED waitGroup
       ELSE /\ net' = net
            /\ conn' = [conn EXCEPT ![c].pc = "panicked"]
            /\ waitGroup' = waitGroup - 1
            /\ UNCHANGED track
    /\ UNCHANGED <<test, listener, listenerSet, mu, connections, connectionCount,
                   handlers, processedCommands, commandsHistory, acceptLoop,
                   crashed, regLog, dispatched>>
    /\ UNCHANGED auxVars

\* the runtime, after an unrecovered panic: the process exits
FatalExit ==
    /\ ~crashed /\ \E c \in Conns : conn[c].pc = "panicked"
    /\ crashed' = TRUE
    /\ UNCHANGED <<test, serverVars, mu, acceptLoop, conn, net, ghostVars>>
    /\ UNCHANGED auxVars

\* the goroutine of listenAndServe, after handleConnection: rs.Lock()
UntrackLock(c) ==
    /\ ~crashed /\ conn[c].pc = "untrackLock" /\ mu = Free
    /\ mu' = ConnTask(c)
    /\ conn' = [conn EXCEPT ![c].pc = "untrack"]
    /\ UNCHANGED <<test, serverVars, acceptLoop, net, crashed, ghostVars>>
    /\ UNCHANGED auxVars

UntrackAndDecrement(c) ==
    /\ ~crashed /\ conn[c].pc = "untrack"
    /\ connections' = connections \ {c}
    /\ connectionCount' = connectionCount - 1
    /\ mu' = Free
    /\ conn' = [conn EXCEPT ![c].pc = "exit"]
    /\ UNCHANGED <<test, listener, listenerSet, waitGroup,
                   handlers, processedCommands, commandsHistory, acceptLoop, net,
                   crashed, ghostVars>>
    /\ UNCHANGED auxVars

\* ... delete(rs.connections, nc); rs.Unlock()
Untrack(c) ==
    /\ ~crashed /\ conn[c].pc = "untrack"
    /\ connections' = connections \ {c}
    /\ mu' = Free
    /\ conn' = [conn EXCEPT ![c].pc = "exit"]
    /\ UNCHANGED <<test, listener, listenerSet, waitGroup, connectionCount,
                   handlers, processedCommands, commandsHistory, acceptLoop, net,
                   crashed, ghostVars>>
    /\ UNCHANGED auxVars

\* ... the deferred nc.Close() and waitGroup.Done(); the bufio.Writer and
\* whatever it still holds are dropped
Exit(c) ==
    /\ ~crashed /\ conn[c].pc = "exit"
    /\ net' = [net EXCEPT ![c].open = FALSE]
    /\ waitGroup' = waitGroup - 1
    /\ conn' = [conn EXCEPT ![c].pc = "done"]
    /\ UNCHANGED <<test, listener, listenerSet, mu, connections, connectionCount,
                   handlers, processedCommands, commandsHistory, acceptLoop,
                   crashed, ghostVars>>
    /\ UNCHANGED auxVars

\* ------------------------------------------------------------ specification
Next ==
    \/ Start
    \/ StartPing
    \/ RegisterCommandHandlerLock
    \/ RegisterCommandHandler
    \/ \E name \in RegNames : CallRegister(name)
    \/ IntrospectionLock
    \/ Introspection
    \/ CloseLock
    \/ Close
    \/ CloseWait
    \/ \E c \in Conns : Accept(c)
    \/ TrackLock
    \/ Track
    \/ Spawn
    \/ AcceptError
    \/ SweepLock
    \/ \E c \in Conns : SweepClose(c)
    \/ SweepDone
    \/ \E c \in Conns, f \in ClientFrames : ClientSend(c, f)
    \/ \E c \in Conns : ClientClose(c)
    \/ \E c \in Conns : ParseRequest(c)
    \/ \E c \in Conns : RecordLock(c)
    \/ \E c \in Conns : Record(c)
    \/ \E c \in Conns : LookupLock(c)
    \/ \E c \in Conns : Lookup(c)
    \/ \E c \in Conns : CountLock(c)
    \/ \E c \in Conns : Count(c)
    \/ \E c \in Conns : Handler(c)
    \/ \E c \in Conns : Flush(c)
    \/ FatalExit
    \/ \E c \in Conns : UntrackLock(c)
    \/ \E c \in Conns : Untrack(c)
    \/ \E c \in Conns : Exit(c)

Spec == Init /\ [][Next]_vars

\* Fair scheduling: every goroutine that can run does run (WF), a goroutine
\* waiting for rs.Mutex gets it when it is free again and again (SF:
\* sync.Mutex hands the lock to a starving waiter), every handler returns,
\* and the runtime ends a panicking process. Nothing is assumed of the
\* clients or of what the test chooses to call.
Fairness ==
    /\ WF_vars(StartPing) /\ WF_vars(RegisterCommandHandler)
    /\ WF_vars(Introspection) /\ WF_vars(Close) /\ WF_vars(CloseWait)
    /\ SF_vars(RegisterCommandHandlerLock)
    /\ WF_vars(Track) /\ WF_vars(Spawn) /\ WF_vars(AcceptError) /\ WF_vars(SweepDone)
    /\ SF_vars(TrackLock) /\ SF_vars(SweepLock)
    /\ WF_vars(FatalExit)
    /\ \A c \in Conns :
         /\ WF_vars(SweepClose(c)) /\ WF_vars(ParseRequest(c))
         /\ WF_vars(Record(c)) /\ WF_vars(Lookup(c)) /\ WF_vars(Count(c))
         /\ WF_vars(Handler(c)) /\ WF_vars(Flush(c))
         /\ WF_vars(Untrack(c)) /\ WF_vars(Exit(c))
         /\ SF_vars(RecordLock(c)) /\ SF_vars(LookupLock(c))
         /\ SF_vars(CountLock(c)) /\ SF_vars(UntrackLock(c))

FairSpec == Spec /\ Fairness

\* ------------------------------------------- the server with hanging handlers
\* The running server, not being closed, whose handlers may never return.
HungNext ==
    \/ Start
    \/ StartPing
    \/ RegisterCommandHandlerLock
    \/ RegisterCommandHandler
    \/ \E name \in RegNames : CallRegister(name)
    \/ IntrospectionLock
    \/ Introspection
    \/ \E c \in Conns : Accept(c)
    \/ TrackLock
    \/ Track
    \/ Spawn
    \/ \E c \in Conns, f \in ClientFrames : ClientSend(c, f)
    \/ \E c \in Conns : ClientClose(c)
    \/ \E c \in Conns : ParseRequest(c)
    \/ \E c \in Conns : RecordLock(c)
    \/ \E c \in Conns : Record(c)
    \/ \E c \in Conns : LookupLock(c)
    \/ \E c \in Conns : Lookup(c)
    \/ \E c \in Conns : CountLock(c)
    \/ \E c \in Conns : Count(c)
    \/ \E c \in Conns : Handler(c)
    \/ \E c \in Conns : Flush(c)
    \/ \E c \in Conns : UntrackLock(c)
    \/ \E c \in Conns : Untrack(c)
    \/ \E c \in Conns : Exit(c)

\* the steps of one goroutine that wait for nothing, and those that take rs.Mutex
ConnBody(c) == \/ ParseRequest(c) \/ Record(c) \/ Lookup(c) \/ Count(c)
               \/ Flush(c) \/ Untrack(c) \/ Exit(c)
ConnLock(c) == RecordLock(c) \/ LookupLock(c) \/ CountLock(c) \/ UntrackLock(c)

\* Fair scheduling as in Fairness, but for the handlers: nothing makes a
\* handler return.
HungFairness ==
    /\ WF_vars(StartPing \/ RegisterCommandHandler \/ Introspection)
    /\ SF_vars(RegisterCommandHandlerLock)
    /\ WF_vars(Track \/ Spawn)
    /\ SF_vars(TrackLock)
    /\ \A c \in Conns : WF_vars(ConnBody(c)) /\ SF_vars(ConnLock(c))

HungSpec == Init /\ [][HungNext]_vars /\ HungFairness

\* ------------------------------------- the server with its baseline handlers
\* The server that is started and serves COMMAND and PING requests, with no
\* registration by the test; it is not closed here.
BaselineFrames == { Req(<<sCOMMAND>>), Req(<<sPING>>), Req(<<sping, skey>>) }

BaselineNext ==
    \/ Start
    \/ StartPing
    \/ RegisterCommandHandlerLock
    \/ RegisterCommandHandler
    \/ \E c \in Conns : Accept(c)
    \/ TrackLock
    \/ Track
    \/ Spawn
    \/ \E c \in Conns, f \in BaselineFrames : ClientSend(c, f)
    \/ \E c \in Conns : ClientClose(c)
    \/ \E c \in Conns : ParseRequest(c)
    \/ \E c \in Conns : RecordLock(c)
    \/ \E c \in Conns : Record(c)
    \/ \E c \in Conns : LookupLock(c)
    \/ \E c \in Conns : Lookup(c)
    \/ \E c \in Conns : CountLock(c)
    \/ \E c \in Conns : Count(c)
    \/ \E c \in Conns : Handler(c)
    \/ \E c \in Conns : Flush(c)
    \/ \E c \in Conns : UntrackLock(c)
    \/ \E c \in Conns : Untrack(c)
    \/ \E c \in Conns : Exit(c)

BaselineSpec == Init /\ [][BaselineNext]_vars

\* ------------------------------------------- the introspection of the server
\* The started server, serving its baseline commands, while the test calls
\* the introspection operations. Addr and TLSCertificate are one return
\* statement each and take no lock: the call and the read are two steps, so
\* that other tasks run between them.
AddrCall ==
    /\ ~crashed /\ test.pc = "run"
    /\ test' = [test EXCEPT !.pc = "addr"]
    /\ UNCHANGED <<serverVars, mu, acceptLoop, conn, net, crashed, ghostVars>>
    /\ UNCHANGED auxVars

\* Addr: return rs.boundAddr
Addr ==
    /\ ~crashed /\ test.pc = "addr"
    /\ test' = [test EXCEPT !.pc = "run"]
    /\ UNCHANGED <<serverVars, mu, acceptLoop, conn, net, crashed, ghostVars>>
    /\ UNCHANGED auxVars

TLSCertificateCall ==
    /\ ~crashed /\ test.pc = "run"
    /\ test' = [test EXCEPT !.pc = "tlsCertificate"]
    /\ UNCHANGED <<serverVars, mu, acceptLoop, conn, net, crashed, ghostVars>>
    /\ UNCHANGED auxVars

\* TLSCertificate: return rs.tlsCert
TLSCertificate ==
    /\ ~crashed /\ test.pc = "tlsCertificate"
    /\ test' = [test EXCEPT !.pc = "run"]
    /\ UNCHANGED <<serverVars, mu, acceptLoop, conn, net, crashed, ghostVars>>
    /\ UNCHANGED auxVars

IntrospectNext ==
    \/ Start
    \/ StartPing
    \/ RegisterCommandHandlerLock
    \/ RegisterCommandHandler
    \/ IntrospectionLock
    \/ Introspection
    \/ AddrCall
    \/ Addr
    \/ TLSCertificateCall
    \/ TLSCertificate
    \/ \E c \in Conns : Accept(c)
    \/ TrackLock
    \/ Track
    \/ Spawn
    \/ \E c \in Conns, f \in BaselineFrames : ClientSend(c, f)
    \/ \E c \in Conns : ClientClose(c)
    \/ \E c \in Conns : ParseRequest(c)
    \/ \E c \in Conns : RecordLock(c)
    \/ \E c \in Conns : Record(c)
    \/ \E c \in Conns : LookupLock(c)
    \/ \E c \in Conns : Lookup(c)
    \/ \E c \in Conns : CountLock(c)
    \/ \E c \in Conns : Count(c)
    \/ \E c \in Conns : Handler(c)
    \/ \E c \in Conns : Flush(c)
    \/ \E c \in Conns : UntrackLock(c)
    \/ \E c \in Conns : Untrack(c)
    \/ \E c \in Conns : Exit(c)

IntrospectSpec == Init /\ [][IntrospectNext]_vars

\* ------------------------------------------- handlers that call the server
\* The started server with one handler of the test registered under SET,
\* whose handlers of the test call RegisterCommandHandler and the
\* introspection functions on the server from inside their body, on the
\* goroutine of their connection; it is not closed here.
HandlerCalls == {"hRegister", "hIntrospect"}
HandlerPcs   == {"handler", "hRegister", "hIntrospect", "hRegisterLocked", "hIntrospectLocked"}

ReentrantFrames == { Req(<<sset, skey>>), Req(<<sPing>>) }

ReentrantInit ==
    /\ test = [pc |-> "run", name |-> <<>>, h |-> "none", ret |-> "run"]
    /\ listener = "open"
    /\ listenerSet = TRUE
    /\ mu = Free
    /\ waitGroup = 1
    /\ connections = {}
    /\ connectionCount = 0
    /\ handlers = SetHandler(SetHandler(SetHandler(<< >>, sCOMMAND, "hCommand"),
                                        sPING, "hPing"), sSET, "h1")
    /\ processedCommands = 0
    /\ commandsHistory = << >>
    /\ acceptLoop = [pc |-> "accept", nc |-> 0, todo |-> {}]
    /\ conn = [c \in Conns |-> [pc |-> "idle", cmd |-> <<>>, args |-> <<>>,
                                handlerFn |-> "none", writer |-> <<>>,
                                closed |-> FALSE]]
    /\ net = [c \in Conns |-> [open |-> FALSE, sent |-> <<>>,
                               buffered |-> 0, read |-> 0, out |-> <<>>]]
    /\ crashed = FALSE
    /\ regLog = <<<<sCOMMAND, "hCommand">>, <<sPING, "hPing">>, <<sSET, "h1">>>>
    /\ dispatched = << >>
    /\ track = [c \in Conns |-> [idx |-> 0, invoked |-> 0, regs |-> 0, served |-> 0,
                                 failure |-> "none", wasOpen |-> FALSE]]
    /\ wconn = NoWriters
    /\ codec = NoCodec
    /\ parse = NoParse

\* handlerFn(c, args): the body of a handler of the test calls
\* RegisterCommandHandler or an introspection function of its server
HandlerCall(c, op) ==
    /\ ~crashed /\ conn[c].pc = "handler"
    /\ conn[c].handlerFn \notin BaselineHandlers
    /\ op = "hRegister" => UserRegs < MaxRegs + 1
    /\ conn' = [conn EXCEPT ![c].pc = op]
    /\ UNCHANGED <<test, serverVars, mu, acceptLoop, net, crashed, ghostVars>>
    /\ UNCHANGED auxVars

\* ... rs.Lock() of that call, on the goroutine of the connection
HandlerCallLock(c) ==
    /\ ~crashed /\ conn[c].pc \in HandlerCalls /\ mu = Free
    /\ mu' = ConnTask(c)
    /\ conn' = [conn EXCEPT ![c].pc = IF @ = "hRegister" THEN "hRegisterLocked"
                                                         ELSE "hIntrospectLocked"]
    /\ UNCHANGED <<test, serverVars, acceptLoop, net, crashed, ghostVars>>
    /\ UNCHANGED auxVars

\* RegisterCommandHandler, called by a handler: the assignment and the
\* deferred rs.Unlock()
HandlerRegister(c, name) ==
    /\ ~crashed /\ conn[c].pc = "hRegisterLocked"
    /\ handlers' = SetHandler(handlers, RegisterKey(name), UserHandlerNames[UserRegs + 1])
    /\ regLog' = Append(regLog, <<name, UserHandlerNames[UserRegs + 1]>>)
    /\ mu' = Free
    /\ conn' = [conn EXCEPT ![c].pc = "handler"]
    /\ UNCHANGED <<test, listener, listenerSet, waitGroup, connections, connectionCount,
                   processedCommands, commandsHistory, acceptLoop, net,
                   crashed, dispatched, track>>
    /\ UNCHANGED auxVars

\* HandledCommandsCount, HandledConnectionsCount, GotCommands, called by a
\* handler: the read and the deferred rs.Unlock()
HandlerIntrospection(c) ==
    /\ ~crashed /\ conn[c].pc = "hIntrospectLocked"
    /\ mu' = Free
    /\ conn' = [conn EXCEPT ![c].pc = "handler"]
    /\ UNCHANGED <<test, serverVars, acceptLoop, net, crashed, ghostVars>>
    /\ UNCHANGED auxVars

ReentrantNext ==
    \/ \E c \in Conns : Accept(c)
    \/ TrackLock
    \/ Track
    \/ Spawn
    \/ \E c \in Conns, f \in ReentrantFrames : ClientSend(c, f)
    \/ \E c \in Conns : ClientClose(c)
    \/ \E c \in Conns : ParseRequest(c)
    \/ \E c \in Conns : RecordLock(c)
    \/ \E c \in Conns : Record(c)
    \/ \E c \in Conns : LookupLock(c)
    \/ \E c \in Conns : Lookup(c)
    \/ \E c \in Conns : CountLock(c)
    \/ \E c \in Conns : Count(c)
    \/ \E c \in Conns, op \in HandlerCalls : HandlerCall(c, op)
    \/ \E c \in Conns : HandlerCallLock(c)
    \/ \E c \in Conns, name \in RegNames : HandlerRegister(c, name)
    \/ \E c \in Conns : HandlerIntrospection(c)
    \/ \E c \in Conns : Handler(c)
    \/ \E c \in Conns : Flush(c)
    \/ \E c \in Conns : UntrackLock(c)
    \/ \E c \in Conns : Untrack(c)
    \/ \E c \in Conns : Exit(c)

\* Fair scheduling of the accept loop and of the goroutines; a goroutine
\* that waits for rs.Mutex gets it when it is free again and again. Nothing
\* makes a handler return or call the server.
ReentrantFairness ==
    /\ WF_vars(Track \/ Spawn)
    /\ SF_vars(TrackLock)
    /\ \A c \in Conns :
         /\ WF_vars(ConnBody(c))
         /\ SF_vars(ConnLock(c))
         /\ WF_vars(HandlerIntrospection(c) \/ \E name \in RegNames : HandlerRegister(c, name))
         /\ SF_vars(HandlerCallLock(c))

ReentrantSpec == ReentrantInit /\ [][ReentrantNext]_vars /\ ReentrantFairness

\* ------------------------------------------------------ Close, called twice
\* The server of Spec, its baseline handlers only, on which the test calls
\* Close again when Close has returned (as the cleanup that RunT registers
\* does after a Close of the test).
CloseAgainPcs == {"closeAgainLocked", "waitAgain", "closedAgain"}

\* Close, second call: rs.Lock()
CloseAgainLock ==
    /\ ~crashed /\ test.pc = "closed" /\ mu = Free
    /\ mu' = TestTask
    /\ test' = [test EXCEPT !.pc = "closeAgainLocked"]
    /\ UNCHANGED <<serverVars, acceptLoop, conn, net, crashed, ghostVars>>
    /\ UNCHANGED auxVars

\* Close, second call: rs.listener.Close() if rs.listener is not nil, which
\* fails on a listener that is closed already, and Close panics with the
\* lock held; else rs.listener = nil and rs.Unlock()
CloseAgain ==
    /\ ~crashed /\ test.pc = "closeAgainLocked"
    /\ IF listenerSet /\ listener = "closed"
       THEN /\ crashed' = TRUE
            /\ UNCHANGED <<listener, listenerSet, mu, test>>
       ELSE /\ listener' = IF listenerSet THEN "closed" ELSE listener
            /\ listenerSet' = FALSE
            /\ mu' = Free
            /\ test' = [test EXCEPT !.pc = "waitAgain"]
            /\ UNCHANGED crashed
    /\ UNCHANGED <<waitGroup, connections, connectionCount, handlers,
                   processedCommands, commandsHistory, acceptLoop, conn, net,
                   ghostVars>>
    /\ UNCHANGED auxVars

\* Close, second call: rs.waitGroup.Wait() returns
CloseAgainWait ==
    /\ ~crashed /\ test.pc = "waitAgain"
    /\ waitGroup = 0
    /\ test' = [test EXCEPT !.pc = "closedAgain"]
    /\ UNCHANGED <<serverVars, mu, acceptLoop, conn, net, crashed, ghostVars>>
    /\ UNCHANGED auxVars

CloseTwiceNext ==
    \/ Start
    \/ StartPing
    \/ RegisterCommandHandlerLock
    \/ RegisterCommandHandler
    \/ CloseLock
    \/ Close
    \/ CloseWait
    \/ CloseAgainLock
    \/ CloseAgain
    \/ CloseAgainWait
    \/ \E c \in Conns : Accept(c)
    \/ TrackLock
    \/ Track
    \/ Spawn
    \/ AcceptError
    \/ SweepLock
    \/ \E c \in Conns : SweepClose(c)
    \/ SweepDone
    \/ \E c \in Conns, f \in BaselineFrames : ClientSend(c, f)
    \/ \E c \in Conns : ClientClose(c)
    \/ \E c \in Conns : ParseRequest(c)
    \/ \E c \in Conns : RecordLock(c)
    \/ \E c \in Conns : Record(c)
    \/ \E c \in Conns : LookupLock(c)
    \/ \E c \in Conns : Lookup(c)
    \/ \E c \in Conns : CountLock(c)
    \/ \E c \in Conns : Count(c)
    \/ \E c \in Conns : Handler(c)
    \/ \E c \in Conns : Flush(c)
    \/ FatalExit
    \/ \E c \in Conns : UntrackLock(c)
    \/ \E c \in Conns : Untrack(c)
    \/ \E c \in Conns : Exit(c)

CloseTwiceSpec == Init /\ [][CloseTwiceNext]_vars

\* ------------------------------------------------------ the plaintext server
\* The server without TLS, whose Connection has a Close method: a handler
\* marks its connection closed, and handleConnection looks at the mark after
\* every flush. Its accept loop, parsing, recording and dispatch are those
\* above. It is taken from the return of Start, which has registered
\* COMMAND, PING and QUIT, and it is not closed here.
QuitFrames == { Req(<<sQUIT>>), Req(<<sPing>>) }

QuitInit ==
    /\ test = [pc |-> "run", name |-> <<>>, h |-> "none", ret |-> "run"]
    /\ listener = "open"
    /\ listenerSet = TRUE
    /\ mu = Free
    /\ waitGroup = 1
    /\ connections = {}
    /\ connectionCount = 0
    /\ handlers = SetHandler(SetHandler(SetHandler(<< >>, sCOMMAND, "hCommand"),
                                        sPING, "hPing"), sQUIT, "hQuit")
    /\ processedCommands = 0
    /\ commandsHistory = << >>
    /\ acceptLoop = [pc |-> "accept", nc |-> 0, todo |-> {}]
    /\ conn = [c \in Conns |-> [pc |-> "idle", cmd |-> <<>>, args |-> <<>>,
                                handlerFn |-> "none", writer |-> <<>>,
                                closed |-> FALSE]]
    /\ net = [c \in Conns |-> [open |-> FALSE, sent |-> <<>>,
                               buffered |-> 0, read |-> 0, out |-> <<>>]]
    /\ crashed = FALSE
    /\ regLog = <<<<sCOMMAND, "hCommand">>, <<sPING, "hPing">>, <<sQUIT, "hQuit">>>>
    /\ dispatched = << >>
    /\ track = [c \in Conns |-> [idx |-> 0, invoked |-> 0, regs |-> 0, served |-> 0,
                                 failure |-> "none", wasOpen |-> FALSE]]
    /\ wconn = NoWriters
    /\ codec = NoCodec
    /\ parse = NoParse

\* handleConnection: connection.Flush(), as Flush above, and on to the mark
FlushPlain(c) ==
    /\ ~crashed /\ conn[c].pc = "flush"
    /\ IF conn[c].writer = <<>> \/ net[c].open
       THEN /\ net' = [net EXCEPT ![c].out = @ \o conn[c].writer]
            /\ conn' = [conn EXCEPT ![c].writer = <<>>, ![c].pc = "closedLock"]
            /\ track' = [track EXCEPT ![c].served = @ + 1]
            /\ UNCHANGED waitGroup
       ELSE /\ net' = net
            /\ conn' = [conn EXCEPT ![c].pc = "panicked"]
            /\ waitGroup' = waitGroup - 1
            /\ UNCHANGED track
    /\ UNCHANGED <<test, listener, listenerSet, mu, connections, connectionCount,
                   handlers, processedCommands, commandsHistory, acceptLoop,
                   crashed, regLog, dispatched>>
    /\ UNCHANGED auxVars

\* handleConnection: rs.mutex.Lock() after the flush
ClosedLock(c) ==
    /\ ~crashed /\ conn[c].pc = "closedLock" /\ mu = Free
    /\ mu' = ConnTask(c)
    /\ conn' = [conn EXCEPT ![c].pc = "closedRead"]
    /\ UNCHANGED <<test, serverVars, acceptLoop, net, crashed, ghostVars>>
    /\ UNCHANGED auxVars

\* handleConnection: closed := connection.closed; rs.mutex.Unlock();
\* if closed { nc.Close() }; and the next turn of the loop
ClosedCheck(c) ==
    /\ ~crashed /\ conn[c].pc = "closedRead"
    /\ mu' = Free
    /\ net' = [net EXCEPT ![c].open = IF conn[c].closed THEN FALSE ELSE @]
    /\ conn' = [conn EXCEPT ![c].pc = "parse"]
    /\ UNCHANGED <<test, serverVars, acceptLoop, crashed, ghostVars>>
    /\ UNCHANGED auxVars

QuitNext ==
    \/ \E c \in Conns : Accept(c)
    \/ TrackLock
    \/ Track
    \/ Spawn
    \/ \E c \in Conns, f \in QuitFrames : ClientSend(c, f)
    \/ \E c \in Conns : ClientClose(c)
    \/ \E c \in Conns : ParseRequest(c)
    \/ \E c \in Conns : RecordLock(c)
    \/ \E c \in Conns : Record(c)
    \/ \E c \in Conns : LookupLock(c)
    \/ \E c \in Conns : Lookup(c)
    \/ \E c \in Conns : CountLock(c)
    \/ \E c \in Conns : Count(c)
    \/ \E c \in Conns : Handler(c)
    \/ \E c \in Conns : FlushPlain(c)
    \/ \E c \in Conns : ClosedLock(c)
    \/ \E c \in Conns : ClosedCheck(c)
    \/ FatalExit
    \/ \E c \in Conns : UntrackLock(c)
    \/ \E c \in Conns : Untrack(c)
    \/ \E c \in Conns : Exit(c)

QuitSpec == QuitInit /\ [][QuitNext]_vars

\* ------------------------------------------ one Connection, several writers
\* Goroutines that each make one write call on the same Connection.
\* wconn.mutex is c.mutex (0 when free, else its holder), wconn.writer the
\* bytes in c.writer, wconn.task[w] the call of writer w and the Fprintf
\* calls it has yet to make; wconn.order is a history variable, the writers
\* in the order in which they took the mutex.
Writers == 1..MaxWriters

WriteCalls ==
    { WriteSimpleString(<<"h", "i">>), WriteError(<<"n", "o", LF, "!">>),
      WriteInteger(10), WriteBulkString(sset), WriteArray(<<skey, snil>>),
      WriteNull, WriteOK }

WriteInit ==
    /\ InitServer
    /\ codec = NoCodec
    /\ parse = NoParse
    /\ \E task \in [Writers -> {[pc |-> "call", call |-> k, todo |-> <<>>] :
                                    k \in WriteCalls}] :
          wconn = [mutex |-> 0, writer |-> <<>>, order |-> <<>>, task |-> task]

CallFnLockNoMutex(w) ==
    /\ wconn.task[w].pc = "call"
    /\ wconn' = [wconn EXCEPT !.mutex = w, !.order = Append(@, w),
                              !.task[w].pc = "fn",
                              !.task[w].todo = Fprintfs(wconn.task[w].call)]
    /\ UNCHANGED <<stubVars, codec, parse>>

\* callFn: c.mutex.Lock(), and the call of fn
CallFnLock(w) ==
    /\ wconn.task[w].pc = "call" /\ wconn.mutex = 0
    /\ wconn' = [wconn EXCEPT !.mutex = w, !.order = Append(@, w),
                              !.task[w].pc = "fn",
                              !.task[w].todo = Fprintfs(wconn.task[w].call)]
    /\ UNCHANGED <<stubVars, codec, parse>>

\* fn: the next fmt.Fprintf(rw.writer, ...) of the write operation
Fprintf(w) ==
    /\ wconn.task[w].pc = "fn" /\ wconn.task[w].todo # <<>>
    /\ wconn' = [wconn EXCEPT !.writer = @ \o Head(wconn.task[w].todo),
                              !.task[w].todo = Tail(@)]
    /\ UNCHANGED <<stubVars, codec, parse>>

\* callFn: fn has returned; the deferred c.mutex.Unlock()
CallFnUnlock(w) ==
    /\ wconn.task[w].pc = "fn" /\ wconn.task[w].todo = <<>>
    /\ wconn' = [wconn EXCEPT !.mutex = 0, !.task[w].pc = "done"]
    /\ UNCHANGED <<stubVars, codec, parse>>

WriteNext ==
    \/ \E w \in Writers : CallFnLock(w)
    \/ \E w \in Writers : Fprintf(w)
    \/ \E w \in Writers : CallFnUnlock(w)

WriteSpec == WriteInit /\ [][WriteNext]_vars

\* ------------------------------------------------------------- the codec
\* The codec applied to one array of strings: WriteArray and then scanArray
\* on its bytes, or the array sent as a request frame (every element a bulk
\* string) and then ReadCommand on its bytes.
CodecStrings == { <<>>, snil, sset, sPing, <<"a", CR, LF>> }
CodecArrays  == UNION { [1..n -> CodecStrings] : n \in 0..MaxElems }

\* a request frame: *<N>\r\n and N bulk strings
RequestBytes(elems) ==
    LenBytes(Len(elems)) \o Flatten([i \in DOMAIN elems |-> BulkStringBytes(elems[i])])

CodecInit ==
    /\ InitServer
    /\ wconn = NoWriters
    /\ parse = NoParse
    /\ \E a \in CodecArrays :
          codec = [pc |-> "input", arr |-> a, next |-> <<>>, wire |-> <<>>, res |-> <<>>]

\* RESPResponseWriter.WriteArray(arr...) into an empty buffer
CodecWriteArray ==
    /\ codec.pc = "input"
    /\ codec' = [codec EXCEPT !.pc = "written", !.wire = Encode(WriteArray(codec.arr))]
    /\ UNCHANGED <<stubVars, wconn, parse>>

\* a client writes the array as a request
CodecSendRequest ==
    /\ codec.pc = "input"
    /\ codec' = [codec EXCEPT !.pc = "sent", !.wire = RequestBytes(codec.arr)]
    /\ UNCHANGED <<stubVars, wconn, parse>>

\* scanArray on the bytes of WriteArray
CodecScanArray ==
    /\ codec.pc = "written"
    /\ codec' = [codec EXCEPT !.pc = "scanned", !.res = scanArrayBytes(codec.wire)]
    /\ UNCHANGED <<stubVars, wconn, parse>>

\* the request of the array, cut into its header and its bulk strings
RequestChunks(elems) ==
    <<LenBytes(Len(elems))>> \o [i \in DOMAIN elems |-> BulkStringBytes(elems[i])]

\* requests that arrive damaged, and after which the stream ends: the request
\* cut short at any byte; the first byte of its header or of one of its bulk
\* strings not the prefix of its type; the first character of one of its
\* lengths not a digit
DamagedRequests(elems) ==
    LET b  == RequestBytes(elems)
        cs == RequestChunks(elems)
    IN {SubSeq(b, 1, n) : n \in 0..(Len(b) - 1)}
       \cup {Flatten([cs EXCEPT ![j][1] = "+"]) : j \in DOMAIN cs}
       \cup {Flatten([cs EXCEPT ![j][2] = "x"]) : j \in DOMAIN cs}

\* a client writes the array as a request, and the request arrives damaged
CodecSendDamaged ==
    /\ codec.pc = "input"
    /\ \E w \in DamagedRequests(codec.arr) :
          codec' = [codec EXCEPT !.pc = "damaged", !.wire = w]
    /\ UNCHANGED <<stubVars, wconn, parse>>

\* ReadCommand on the bytes of the request
CodecReadCommand ==
    /\ codec.pc \in {"sent", "damaged"}
    /\ codec' = [codec EXCEPT !.pc = IF codec.pc = "sent" THEN "read" ELSE "readDamaged",
                              !.res = ReadCommandBytes(codec.wire)]
    /\ UNCHANGED <<stubVars, wconn, parse>>

\* a client writes two requests back to back: the array, and then another
CodecSendPipelined ==
    /\ codec.pc = "input"
    /\ \E b \in CodecArrays :
          codec' = [codec EXCEPT !.pc = "stream", !.next = b,
                                 !.wire = RequestBytes(codec.arr) \o RequestBytes(b)]
    /\ UNCHANGED <<stubVars, wconn, parse>>

\* ReadCommand on a stream: what it returns, and the bytes it leaves unread
ReadCommandStream(r) == [ret |-> ReadCommandBytes(r), rest |-> scanArrayBytes(r).rest]

\* Connection.ParseRequest, once for each of the two requests, on the one
\* reader of the connection
CodecParseRequest ==
    /\ codec.pc \in {"stream", "first"}
    /\ LET r == ReadCommandStream(codec.wire) IN
       codec' = [codec EXCEPT !.pc = IF codec.pc = "stream" THEN "first" ELSE "second",
                              !.res = Append(@, r),
                              !.wire = r.rest]
    /\ UNCHANGED <<stubVars, wconn, parse>>

\* the texts given to WriteSimpleString and WriteError
MaxText == 3
TextRunes == {"a", "-", " ", "\t", CR, LF}
Texts == UNION {[1..n -> TextRunes] : n \in 0..MaxText}

\* RESPResponseWriter.WriteSimpleString(s) or WriteError(err) into an empty buffer
CodecWriteLine ==
    /\ codec.pc = "input"
    /\ \E s \in Texts :
          \E call \in {WriteSimpleString(s), WriteError(s)} :
              codec' = [codec EXCEPT !.pc = "line", !.res = call, !.wire = Encode(call)]
    /\ UNCHANGED <<stubVars, wconn, parse>>

CodecNext ==
    \/ CodecWriteLine
    \/ CodecSendPipelined
    \/ CodecParseRequest
    \/ CodecWriteArray
    \/ CodecSendRequest
    \/ CodecSendDamaged
    \/ CodecScanArray
    \/ CodecReadCommand

CodecSpec == CodecInit /\ [][CodecNext]_vars

\* ----------------------------------------------------- the options of a client
\* readOptions applied to one options object, as the scripting host exports it:
\* a map whose values are maps, arrays ([]interface{}), strings and numbers.
MaxNodes == 3        \* elements of cluster.nodes

\* time.Duration(ms) * time.Millisecond, and Duration.Milliseconds()
Millisecond == 1000000
Duration(ms) == ms * Millisecond
Milliseconds(d) == d \div Millisecond

NilSocket == [nil |-> TRUE, Host |-> ""]
Socket1   == [nil |-> FALSE, Host |-> "host1"]

\* a singleNodeOptions with every field at its zero value but the socket
ZeroNode == [type |-> "object", Socket |-> Socket1, Database |-> 0, Username |-> "",
             Password |-> "", MaxRetries |-> 0, MinRetryBackoff |-> 0,
             MaxRetryBackoff |-> 0]

\* the node objects given: at most one option set, or no socket
NodeObjects ==
    {ZeroNode, [ZeroNode EXCEPT !.Socket = NilSocket]}
    \cup {[ZeroNode EXCEPT !.Database = v] : v \in 1..2}
    \cup {[ZeroNode EXCEPT !.Username = v] : v \in {"user1", "user2"}}
    \cup {[ZeroNode EXCEPT !.Password = v] : v \in {"pass1", "pass2"}}
    \cup {[ZeroNode EXCEPT !.MaxRetries = v] : v \in 1..2}
    \cup {[ZeroNode EXCEPT !.MinRetryBackoff = v] : v \in 1..2}
    \cup {[ZeroNode EXCEPT !.MaxRetryBackoff = v] : v \in 1..2}

\* an element of cluster.nodes that is a number
NumberElement == [ZeroNode EXCEPT !.type = "int64"]
NodeElements == NodeObjects \cup {NumberElement}

\* cluster.nodes: absent, a number, or an array
NodesValues ==
    {[type |-> "nil", elems |-> <<>>], [type |-> "int64", elems |-> <<>>]}
    \cup {[type |-> "array", elems |-> e] :
             e \in UNION {[1..n -> NodeElements] : n \in 0..MaxNodes}}

\* the options objects: `cluster` given or not, `masterName` given or not, a
\* field no options struct has at the top level or in the cluster object
OptionsObjects ==
    {[cluster |-> FALSE, masterName |-> m, unknownTop |-> u, unknownIn |-> FALSE,
      node |-> n, nodes |-> [type |-> "nil", elems |-> <<>>]] :
        m \in BOOLEAN, u \in BOOLEAN, n \in NodeObjects}
    \cup
    {[cluster |-> TRUE, masterName |-> FALSE, unknownTop |-> u, unknownIn |-> v,
      node |-> ZeroNode, nodes |-> ns] :
        u \in BOOLEAN, v \in BOOLEAN, ns \in NodesValues}

NilOptions == [nil |-> TRUE, Addrs |-> <<>>, DB |-> 0, Username |-> "", Password |-> "",
               MaxRetries |-> 0, MinRetryBackoff |-> 0, MaxRetryBackoff |-> 0]
\* &redis.UniversalOptions{Protocol: 2, ...} of a cluster
NewUniversalOptions == [NilOptions EXCEPT !.nil = FALSE]

\* an error is the sequence of the parts of its message; NilError is no error
NilError    == << >>
OptOk(u)    == [err |-> NilError, panic |-> FALSE, opts |-> u]
OptErr(e)   == [err |-> <<e>>, panic |-> FALSE, opts |-> NilOptions]
\* a nil pointer dereference, or panic(...)
OptPanic    == [err |-> NilError, panic |-> TRUE, opts |-> NilOptions]

\* setConsistentOptions(uopts, opts): opts.Socket.Host of a nil socket panics
setConsistentOptions(uopts, opts) ==
    IF opts.Socket.nil THEN OptPanic
    ELSE IF uopts.DB # 0 /\ opts.Database # 0 /\ uopts.DB # opts.Database
        THEN OptErr("inconsistent db option")
    ELSE IF uopts.Username # "" /\ opts.Username # "" /\ uopts.Username # opts.Username
        THEN OptErr("inconsistent username option")
    ELSE IF uopts.Password # "" /\ opts.Password # "" /\ uopts.Password # opts.Password
        THEN OptErr("inconsistent password option")
    ELSE IF uopts.MaxRetries # 0 /\ opts.MaxRetries # 0
            /\ uopts.MaxRetries # opts.MaxRetries
        THEN OptErr("inconsistent maxRetries option")
    ELSE IF uopts.MinRetryBackoff # 0 /\ opts.MinRetryBackoff # 0
            /\ Milliseconds(uopts.MinRetryBackoff) # opts.MinRetryBackoff
        THEN OptErr("inconsistent minRetryBackoff option")
    ELSE IF uopts.MaxRetryBackoff # 0 /\ opts.MaxRetryBackoff # 0
            /\ Milliseconds(uopts.MaxRetryBackoff) # opts.MaxRetryBackoff
        THEN OptErr("inconsistent maxRetryBackoff option")
    ELSE OptOk([uopts EXCEPT
                  !.Addrs = Append(uopts.Addrs, opts.Socket.Host),
                  !.DB = opts.Database,
                  !.Username = opts.Username,
                  !.Password = opts.Password,
                  !.MaxRetries = opts.MaxRetries,
                  !.MinRetryBackoff = Duration(opts.MinRetryBackoff),
                  !.MaxRetryBackoff = Duration(opts.MaxRetryBackoff)])

\* setSocketOptions(opts, sopts), no TLS options given: sopts.Host of a nil
\* socket panics
setSocketOptions(opts, sopts) ==
    IF sopts.nil THEN OptPanic
    ELSE OptOk([opts EXCEPT !.Addrs = <<sopts.Host>>])

\* one options object to parse
OptionsInit ==
    /\ InitServer
    /\ wconn = NoWriters
    /\ codec = NoCodec
    /\ \E o \in OptionsObjects :
          parse = [pc |-> "input", obj |-> o, options |-> "nil", i |-> 0,
                   res |-> OptOk(NilOptions)]

\* what decoder.Decode(&options) can return for the object decoded into the
\* struct chosen: an unknown field, an array element that is not an object
DecodeErrors(o, options) ==
    IF options = "map" THEN {}
    ELSE (IF (IF o.cluster THEN o.unknownIn ELSE o.unknownTop)
          THEN {"json: unknown field"} ELSE {})
         \cup
         (IF options = "clusterNodesMapOptions"
             /\ \E k \in DOMAIN o.nodes.elems : o.nodes.elems[k].type # "object"
          THEN {"json: cannot unmarshal"} ELSE {})

\* the struct newOptionsFromObject chooses; with cluster.nodes not an array
\* `options` stays a nil interface and Decode fills it with a map
OptionsType(o) ==
    IF o.cluster
    THEN IF o.nodes.type = "array" THEN "clusterNodesMapOptions" ELSE "map"
    ELSE IF o.masterName THEN "sentinelOptions" ELSE "singleNodeOptions"

\* newOptionsFromObject up to the call of toUniversalOptions
NewOptionsFromObject ==
    /\ parse.pc = "input"
    /\ LET t == OptionsType(parse.obj)
           errs == DecodeErrors(parse.obj, t) IN
       IF errs # {}
       THEN \E e \in errs :
               parse' = [parse EXCEPT !.pc = "return", !.options = t, !.res = OptErr(e)]
       ELSE parse' = [parse EXCEPT !.pc = "convert", !.options = t]
    /\ UNCHANGED <<stubVars, wconn, codec>>

\* toUniversalOptions, case *clusterNodesMapOptions: the options before the loop
ClusterOptions ==
    /\ parse.pc = "convert"
    /\ parse.options = "clusterNodesMapOptions"
    /\ parse' = [parse EXCEPT !.pc = "nodes", !.i = 1, !.res = OptOk(NewUniversalOptions)]
    /\ UNCHANGED <<stubVars, wconn, codec>>

\* one turn of the loop over o.Nodes
ClusterNode ==
    /\ parse.pc = "nodes"
    /\ parse.i <= Len(parse.obj.nodes.elems)
    /\ LET n == parse.obj.nodes.elems[parse.i]
           r == setConsistentOptions(parse.res.opts, n)
           s == IF r.err = NilError /\ ~r.panic THEN setSocketOptions(r.opts, n.Socket)
                ELSE r IN
       parse' = [parse EXCEPT
                   !.pc = IF s.panic THEN "panicked"
                          ELSE IF s.err # NilError THEN "return" ELSE "nodes",
                   !.i = @ + 1,
                   !.res = s]
    /\ UNCHANGED <<stubVars, wconn, codec>>

\* the loop is over: return universalOpts, nil
ClusterDone ==
    /\ parse.pc = "nodes"
    /\ parse.i > Len(parse.obj.nodes.elems)
    /\ parse' = [parse EXCEPT !.pc = "return"]
    /\ UNCHANGED <<stubVars, wconn, codec>>

\* toUniversalOptions, case *sentinelOptions: nothing is built
SentinelOptions ==
    /\ parse.pc = "convert"
    /\ parse.options = "sentinelOptions"
    /\ parse' = [parse EXCEPT !.pc = "return", !.res = OptOk(NilOptions)]
    /\ UNCHANGED <<stubVars, wconn, codec>>

\* toUniversalOptions, case *singleNodeOptions
SingleNodeOptions ==
    /\ parse.pc = "convert"
    /\ parse.options = "singleNodeOptions"
    /\ LET o == parse.obj.node
           u == [NewUniversalOptions EXCEPT
                   !.DB = o.Database, !.Username = o.Username,
                   !.Password = o.Password, !.MaxRetries = o.MaxRetries,
                   !.MinRetryBackoff = Duration(o.MinRetryBackoff),
                   !.MaxRetryBackoff = Duration(o.MaxRetryBackoff)]
           s == setSocketOptions(u, o.Socket) IN
       parse' = [parse EXCEPT !.pc = IF s.panic THEN "panicked" ELSE "return",
                              !.res = s]
    /\ UNCHANGED <<stubVars, wconn, codec>>

\* toUniversalOptions, default: panic("unexpected options type ...")
UnexpectedOptionsType ==
    /\ parse.pc = "convert"
    /\ parse.options = "map"
    /\ parse' = [parse EXCEPT !.pc = "panicked", !.res = OptPanic]
    /\ UNCHANGED <<stubVars, wconn, codec>>

\* readOptions returns: an error is wrapped as "invalid options; reason: ..."
InvalidOptions(e) == <<"invalid options; reason: ">> \o e
ReadOptionsReturn ==
    /\ parse.pc = "return"
    /\ parse' = [parse EXCEPT
                   !.pc = "done",
                   !.res = IF parse.res.err = NilError THEN parse.res
                           ELSE [parse.res EXCEPT !.err = InvalidOptions(@)]]
    /\ UNCHANGED <<stubVars, wconn, codec>>

OptionsNext ==
    \/ NewOptionsFromObject
    \/ ClusterOptions
    \/ ClusterNode
    \/ ClusterDone
    \/ SentinelOptions
    \/ SingleNodeOptions
    \/ UnexpectedOptionsType
    \/ ReadOptionsReturn

OptionsSpec == OptionsInit /\ [][OptionsNext]_vars

\* --------------------------------------------------------------- properties
IsPrefix(s, t) == Len(s) <= Len(t) /\ \A i \in DOMAIN s : s[i] = t[i]

\* c is between recording a request and the return of handleCommand
InDispatch(c) == conn[c].pc \in {"lookupLock", "lookup", "countLock", "count", "handler"}
Quiescent == \A c \in Conns : ~InDispatch(c)

HandledEntries == {i \in DOMAIN dispatched : dispatched[i].st = "handled"}
UnknownEntries == {i \in DOMAIN dispatched : dispatched[i].st = "unknown"}

\* C1: in every quiescent state HandledCommandsCount is the number of history
\* entries whose name had a registered handler when it was dispatched; the
\* entries whose name had none are in the history and are not counted.
C1_CounterCorrectness ==
    Quiescent =>
        /\ Len(commandsHistory) = Len(dispatched)
        /\ DOMAIN commandsHistory = HandledEntries \cup UnknownEntries
        /\ HandledCommandsCount = Cardinality(HandledEntries)

\* a quiet server whose history holds one unknown and one handled request
C1_Witness ==
    /\ Quiescent
    /\ Len(commandsHistory) = 2
    /\ Cardinality(UnknownEntries) = 1
    /\ HandledCommandsCount = 1

\* a request frame that ReadCommand accepts
WellFormed(f) == f.k = "array" /\ Len(f.elems) >= 1

\* c is the only connection that sent anything, everything it sent is a
\* well-formed request, and all of it has been served
AllServedAlone(c) ==
    /\ \A d \in Conns \ {c} : net[d].sent = <<>>
    /\ \A i \in DOMAIN net[c].sent : WellFormed(net[c].sent[i])
    /\ conn[c].pc = "parse"
    /\ track[c].served = Len(net[c].sent)

\* a request as ReadCommand hands it on: its name upper-cased, its arguments as sent
Parsed(elems) == <<ToUpper(elems[1])>> \o Tail(elems)

\* C2, as stated: once the N well-formed requests sent on one connection
\* have been served, GotCommands is exactly those requests, in send order.
C2_HistoryIsWhatWasSent ==
    \A c \in Conns :
        AllServedAlone(c) =>
            GotCommands = [i \in DOMAIN net[c].sent |-> net[c].sent[i].elems]

\* C2, amended: ... GotCommands is those N requests in send order, each with
\* its command name converted to upper case and its arguments unchanged.
C2_HistoryInSendOrder ==
    \A c \in Conns :
        AllServedAlone(c) =>
            GotCommands = [i \in DOMAIN net[c].sent |-> Parsed(net[c].sent[i].elems)]

\* two different requests sent on one connection have both been served
C2_Witness ==
    \E c \in Conns :
        /\ AllServedAlone(c)
        /\ Len(net[c].sent) = 2
        /\ net[c].sent[1] # net[c].sent[2]
        /\ Len(GotCommands) = 2

\* the goroutine of connection c has returned or unwound: its deferred
\* waitGroup.Done() has run, or it was never spawned
TaskExited(c) == conn[c].pc \in {"idle", "done", "panicked"}

\* C3: when Close has returned, the accept loop and every connection task
\* that was ever spawned have exited.
C3_CloseJoinsAllTasks ==
    test.pc = "closed" =>
        /\ acceptLoop.pc \in {"none", "exited"}
        /\ \A c \in Conns : TaskExited(c)

\* Close has returned on a server that accepted and served two connections
C3_Witness ==
    /\ test.pc = "closed"
    /\ acceptLoop.pc = "exited"
    /\ \A c \in Conns : conn[c].pc = "done" /\ track[c].served >= 1

\* C4: when every handler returns, a Close that was called returns, under
\* fair scheduling (checked under FairSpec).
C4_CloseEventuallyReturns ==
    (test.pc \in {"closeLocked", "wait"}) ~> (test.pc = "closed")

\* C5, as stated: exactly one handler invocation per successfully parsed
\* request (counted when handleCommand has returned).
C5_ExactlyOneInvocation ==
    \A c \in Conns : conn[c].pc = "flush" => track[c].invoked = 1

\* C5, amended: a successfully parsed request gets at most one handler
\* invocation: exactly one when a handler was registered under its name at
\* the lookup, and none when there was none.
C5_OneInvocationIfRegistered ==
    \A c \in Conns :
        /\ track[c].invoked <= 1
        /\ conn[c].pc = "flush" =>
               track[c].invoked = IF dispatched[track[c].idx].st = "handled" THEN 1 ELSE 0
        /\ conn[c].pc \in {"recordLock", "record", "lookupLock", "lookup",
                           "countLock", "count", "handler"} => track[c].invoked = 0

\* handleCommand has returned from the one call of a registered handler, on
\* one connection, and from an unknown command on the other
C5_Witness ==
    \E c, d \in Conns :
        /\ conn[c].pc = "flush" /\ track[c].invoked = 1
        /\ conn[d].pc = "flush" /\ track[d].invoked = 0

\* where a connection goroutine is once handleConnection has returned
ClosingPcs == {"untrackLock", "untrack", "exit", "done"}

\* C6: the step in which parsing a request fails on a connection appends
\* nothing to the history, leaves the dispatched-command count alone and
\* leaves handleConnection; from then on the connection reads nothing more,
\* records nothing, invokes no handler and only goes on to be closed.
C6_ParseErrorEndsConnection ==
    [][\A c \in Conns :
         /\ (track[c].failure = "none" /\ track'[c].failure # "none") =>
                /\ commandsHistory' = commandsHistory
                /\ processedCommands' = processedCommands
                /\ track'[c].invoked = track[c].invoked
                /\ conn'[c].pc = "untrackLock"
         /\ track[c].failure # "none" =>
                /\ net'[c].read = net[c].read
                /\ track'[c].idx = track[c].idx
                /\ track'[c].invoked = track[c].invoked
                /\ conn'[c].pc \in ClosingPcs]_vars

\* a connection was closed after a malformed frame with a frame it never read
C6_Witness ==
    \E c \in Conns :
        /\ track[c].failure = "syntax"
        /\ conn[c].pc = "done" /\ ~net[c].open
        /\ net[c].read < Len(net[c].sent)
        /\ track[c].idx = 0

\* the name of the request connection c parsed last, as the client sent it
RawName(c) == net[c].sent[net[c].read].elems[1]

\* no RegisterCommandHandler call so far gave a name equal to name, ignoring case
NeverRegistered(name) ==
    \A i \in DOMAIN regLog : ToUpper(regLog[i][1]) # ToUpper(name)

\* C7: a well-formed request whose upper-cased name has no registered
\* handler has exactly one unknown-command error frame written for it, which
\* the flush delivers to the client while the transport is open; the count
\* does not change and the connection goes back to parsing, still open.
C7_UnknownCommandKeepsConnection ==
    [][\A c \in Conns :
         /\ (/\ conn[c].pc = "lookup" /\ conn'[c].pc # "lookup"
             /\ NeverRegistered(RawName(c))) =>
                /\ conn'[c].pc = "flush"
                /\ conn'[c].writer = <<WriteError(ErrUnknownCommand)>>
                /\ processedCommands' = processedCommands
         /\ (/\ conn[c].pc = "flush" /\ conn'[c].pc # "flush"
             /\ dispatched[track[c].idx].st = "unknown" /\ net[c].open) =>
                /\ net'[c].out = Append(net[c].out, WriteError(ErrUnknownCommand))
                /\ processedCommands' = processedCommands
                /\ conn'[c].pc = "parse" /\ net'[c].open]_vars

\* a connection got the unknown-command error and then the answer of the
\* next, valid request
C7_Witness ==
    \E c \in Conns :
        /\ net[c].out = <<WriteError(ErrUnknownCommand), WriteSimpleString("PONG")>>
        /\ HandledCommandsCount = 1
        /\ conn[c].pc = "parse" /\ net[c].open

\* the protocol-error frames that reached the client of connection c
ProtocolErrorsReceived(c) ==
    Cardinality({i \in DOMAIN net[c].out : net[c].out[i] = WriteError(ErrInvalidSyntax)})

\* C8: when a request failed to decode on malformed framing with the
\* transport open (and no shutdown under way), the client has received
\* exactly one protocol-error frame by the time the transport is closed.
C8_ProtocolErrorDelivered ==
    \A c \in Conns :
        (/\ track[c].failure = "syntax" /\ track[c].wasOpen
         /\ listener = "open"
         /\ conn[c].pc = "done") => ProtocolErrorsReceived(c) = 1

\* C9: every step leaves the old history a prefix of the new one and
\* decreases neither counter.
C9_HistoryAndCountersMonotonic ==
    [][/\ IsPrefix(commandsHistory, commandsHistory')
       /\ processedCommands' >= processedCommands
       /\ connectionCount' >= connectionCount]_vars

\* Close has returned and the history and both counters are what the two
\* connections left
C9_Witness ==
    /\ test.pc = "closed"
    /\ Len(commandsHistory) = 2
    /\ processedCommands >= 1
    /\ connectionCount = 2

\* the handler of the last registration, among log, under a name equal to
\* name ignoring case ("none" when there is none)
LastRegistered(log, name) ==
    LET S == {i \in DOMAIN log : ToUpper(log[i][1]) = ToUpper(name)} IN
    IF S = {} THEN "none"
    ELSE log[CHOOSE i \in S : \A j \in S : j <= i][2]

\* C10: a request is dispatched to the handler most recently registered,
\* when its handler is looked up, under a name equal to its own ignoring
\* letter case; that handler, and no earlier one, writes its response.
C10_LastRegistrationWins ==
    \A c \in Conns :
        LET h == LastRegistered(SubSeq(regLog, 1, track[c].regs), RawName(c)) IN
        /\ conn[c].pc \in {"countLock", "count", "handler"} =>
               conn[c].handlerFn = h /\ h # "none"
        /\ conn[c].pc = "flush" =>
               /\ conn[c].handlerFn = h
               /\ h # "none" => conn[c].writer = HandlerWrites(h, conn[c].args)

\* a request sent as Ping was answered by the handler the test registered
\* as ping, after Start had registered one as PING
C10_Witness ==
    \E c \in Conns :
        /\ conn[c].pc = "flush"
        /\ RawName(c) = sPing
        /\ regLog = <<<<sCOMMAND, "hCommand">>, <<sPING, "hPing">>, <<sping, "h1">>>>
        /\ conn[c].writer = <<WriteSimpleString("h1")>>

\* the registry is what the completed registrations, in order, make it
RegistryMatchesLog ==
    /\ DOMAIN handlers = {ToUpper(regLog[i][1]) : i \in DOMAIN regLog}
    /\ \A k \in DOMAIN handlers : handlers[k] = LastRegistered(regLog, k)

\* the registry is written and read under rs.Mutex only
RegistryUnderLock ==
    /\ test.pc = "registerLocked" => mu = TestTask
    /\ \A c \in Conns : conn[c].pc = "lookup" => mu = ConnTask(c)

\* C11: registrations interleave with the dispatch on the connections
\* without corrupting the registry (it is always what the completed
\* registrations make it, and is written and read under the lock only), and
\* every lookup finds the handler of the last registration that has
\* returned by then.
C11_RegistrationSafeWithDispatch ==
    /\ [](RegistryMatchesLog /\ RegistryUnderLock)
    /\ [][\A c \in Conns :
            (conn[c].pc = "lookup" /\ conn'[c].pc # "lookup") =>
                conn'[c].handlerFn = LastRegistered(regLog, RawName(c))]_vars

\* a registration returned while one connection was in dispatch, and the
\* lookup of the other connection, made afterwards, found its handler
C11_Witness ==
    \E c, d \in Conns :
        /\ conn[d].pc \in {"countLock", "count", "handler"} /\ track[d].regs = 2
        /\ Len(regLog) = 3
        /\ conn[c].pc = "countLock" /\ track[c].regs = 3
        /\ conn[c].handlerFn = "h1"

\* where a connection goroutine is while it serves a request, outside the handler
ServingPcs == {"recordLock", "record", "lookupLock", "lookup", "countLock", "count",
               "flush"}

\* C12: a goroutine inside a handler does not hold rs.Mutex, and whatever
\* handlers never return, every request that has arrived on a connection is
\* parsed, and a parsed request is recorded, looked up and
\* taken to its own handler, or flushed once that has returned; and calls of
\* RegisterCommandHandler and of the introspection functions return
\* (checked under HungSpec, where nothing makes a handler return).
C12_HungHandlerBlocksOnlyItsConnection ==
    /\ [](\A c \in Conns : conn[c].pc = "handler" => mu # ConnTask(c))
    /\ \A d \in Conns :
          /\ (conn[d].pc \in ServingPcs) ~> (conn[d].pc \in {"handler", "parse"})
          /\ (conn[d].pc = "parse" /\ net[d].read < Len(net[d].sent)) ~>
                 \/ conn[d].pc = "handler"
                 \/ conn[d].pc \in ClosingPcs
                 \/ conn[d].pc = "parse" /\ net[d].read = Len(net[d].sent)
    /\ (test.pc \in {"register", "registerLocked", "introspect"}) ~>
           (test.pc \in {"startPing", "run"})

\* a handler is running on one connection while a request recorded after
\* its request, on the other connection, has been flushed, and the test has
\* registered a handler since
C12_Witness ==
    \E c, d \in Conns :
        /\ conn[c].pc = "handler"
        /\ track[d].idx > track[c].idx
        /\ conn[d].pc = "parse" /\ track[d].served = 1
        /\ track[c].regs = 2 /\ Len(regLog) = 3 /\ test.pc = "run"

\* the bytes writer w has put into the buffer so far
Written(w) ==
    LET t   == wconn.task[w]
        all == Fprintfs(t.call)
    IN IF t.pc = "call" THEN <<>>
       ELSE Flatten(SubSeq(all, 1, Len(all) - Len(t.todo)))

\* C13: the buffer of a Connection on which several goroutines write at
\* once holds the complete frames of the calls that have returned, one after
\* the other in the order in which the calls took the mutex, followed by the
\* bytes written so far by the one call that is under way, if any; when all
\* have returned it is the concatenation of their frames in that order
\* (checked under WriteSpec).
C13_FramesNeverInterleave ==
    LET o == wconn.order IN
    /\ \A i \in 1..(Len(o) - 1) : wconn.task[o[i]].pc = "done"
    /\ wconn.writer = Flatten([i \in DOMAIN o |-> Written(o[i])])
    /\ (\A w \in Writers : wconn.task[w].pc = "done") =>
           /\ {o[i] : i \in DOMAIN o} = Writers /\ Len(o) = MaxWriters
           /\ wconn.writer = Flatten([i \in DOMAIN o |-> Encode(wconn.task[o[i]].call)])

\* a WriteArray has written its length and one of its two elements, while
\* another goroutine has called WriteBulkString and waits for the mutex
C13_Witness ==
    \E w, x \in Writers :
        /\ wconn.task[w].call = WriteArray(<<skey, snil>>)
        /\ wconn.task[w].pc = "fn" /\ Len(wconn.task[w].todo) = 1
        /\ wconn.task[x].call = WriteBulkString(sset)
        /\ wconn.task[x].pc = "call"

\* the history entries of connection c among the first n, in order
RECURSIVE EntriesOf(_, _)
EntriesOf(c, n) ==
    IF n = 0 THEN <<>>
    ELSE IF dispatched[n].c = c THEN Append(EntriesOf(c, n - 1), n)
    ELSE EntriesOf(c, n - 1)

\* the frames written for history entry i: those of the handler its lookup
\* found, or the unknown-command error
FramesFor(i) ==
    IF dispatched[i].st = "unknown" THEN <<WriteError(ErrUnknownCommand)>>
    ELSE HandlerWrites(dispatched[i].h, Tail(commandsHistory[i]))

\* C14: what the client of a connection has received is the frames written
\* for the requests of that connection that have been flushed, in the order
\* of those requests, and nothing else; and the buffer that is about to be
\* flushed holds the frames of the connection's own current request only.
C14_StreamsAreIsolated ==
    \A c \in Conns :
        LET es == EntriesOf(c, Len(dispatched)) IN
        /\ track[c].served <= Len(es)
        /\ net[c].out = Flatten([k \in 1..track[c].served |-> FramesFor(es[k])])
        /\ conn[c].pc = "flush" => conn[c].writer = FramesFor(track[c].idx)

\* two connections were in dispatch at once: the one whose request was
\* recorded last has had its answer flushed, while the answer to the other,
\* a different one, is still in its buffer
C14_Witness ==
    \E c, d \in Conns :
        /\ track[c].idx = 1 /\ track[d].idx = 2
        /\ conn[c].pc = "flush" /\ conn[c].writer = <<WriteError(ErrUnknownCommand)>>
        /\ net[d].out = <<WriteSimpleString("PONG")>> /\ net[c].out = <<>>

\* the connections l.Accept() has returned so far
Accepted == {c \in Conns : Dialled(c)}

\* C15, as stated: in every reachable state HandledConnectionsCount is the
\* number of connections accepted so far.
C15_CountIsAccepted ==
    HandledConnectionsCount = Cardinality(Accepted)

\* C15, amended: HandledConnectionsCount is the number of connections
\* accepted so far, except while the accept loop is between the return of
\* l.Accept() and rs.connectionCount++, when it is one less; neither a
\* connection that closes nor Close decrements it.
C15_CountIsAcceptedOnceTracked ==
    HandledConnectionsCount =
        IF acceptLoop.pc \in {"trackLock", "track"} THEN Cardinality(Accepted) - 1
        ELSE Cardinality(Accepted)

\* both connections have been accepted, served and closed, and Close has
\* returned: the count is still two
C15_Witness ==
    /\ test.pc = "closed"
    /\ connections = {} /\ \A c \in Conns : conn[c].pc = "done" /\ ~net[c].open
    /\ HandledConnectionsCount = 2

\* C16: once the goroutine of Start has swept, every tracked connection has
\* its transport closed; and when Close has returned, no connection is
\* tracked any more and every accepted transport is closed.
C16_CloseLeavesNothingOpen ==
    /\ acceptLoop.pc = "exited" => \A c \in connections : ~net[c].open
    /\ test.pc = "closed" =>
           /\ connections = {}
           /\ \A c \in Accepted : ~net[c].open

\* C17: the mark is looked at when the response of the request has been
\* flushed; a connection marked closed has its transport closed there and
\* the loop then ends without another request being parsed; a connection
\* not marked closed is left open and goes back to parsing (checked under
\* QuitSpec).
C17_CloseMarkEndsLoop ==
    /\ [](\A c \in Conns : conn[c].pc = "closedRead" => conn[c].writer = <<>>)
    /\ [][\A c \in Conns :
            /\ (conn[c].pc = "closedRead" /\ conn'[c].pc # "closedRead") =>
                   IF conn[c].closed THEN ~net'[c].open
                   ELSE net'[c].open = net[c].open /\ conn'[c].pc = "parse"
            /\ (conn[c].closed /\ conn[c].pc = "parse") =>
                   conn'[c].pc \in {"parse"} \cup ClosingPcs]_vars

\* C18: a request whose handler was looked up after Start had made its two
\* registrations has, when handleCommand returns: for COMMAND, the array of
\* the one bulk string OK in its buffer; for PING with one argument, that
\* argument as a bulk string; for PING with no argument, the simple string
\* PONG; it was dispatched to a handler, and in every quiescent state the
\* count is the number of requests so dispatched (checked under BaselineSpec).
C18_BaselineHandlers ==
    /\ \A c \in Conns :
          (conn[c].pc = "flush" /\ track[c].regs = 2) =>
              /\ dispatched[track[c].idx].st = "handled"
              /\ conn[c].cmd = sCOMMAND => conn[c].writer = <<WriteArray(<<"OK">>)>>
              /\ (conn[c].cmd = sPING /\ Len(conn[c].args) = 1) =>
                     conn[c].writer = <<WriteBulkString(conn[c].args[1])>>
              /\ (conn[c].cmd = sPING /\ Len(conn[c].args) = 0) =>
                     conn[c].writer = <<WriteSimpleString("PONG")>>
    /\ Quiescent => HandledCommandsCount = Cardinality(HandledEntries)

\* after a COMMAND request was answered, a request sent as ping with the
\* argument key has the bulk string key in its buffer, and both are counted
C18_Witness ==
    \E c \in Conns :
        /\ conn[c].pc = "flush" /\ track[c].regs = 2
        /\ RawName(c) = sping /\ conn[c].args = <<skey>>
        /\ conn[c].writer = <<WriteBulkString(skey)>>
        /\ net[c].out = <<WriteArray(<<"OK">>)>>
        /\ HandledCommandsCount = 2

\* C19, as stated: scanArray on the bytes of WriteArray yields the array.
C19_ArrayRoundTrip ==
    codec.pc = "scanned" =>
        codec.res.err = "nil" /\ codec.res.val = codec.arr

\* C19, amended: scanArray on the bytes of WriteArray consumes them all and
\* yields as many elements as the array has; an element that is neither
\* empty nor "nil" comes back with the same content, and an empty or "nil"
\* element, written as the null frame, comes back as the line $-1\r\n
\* (checked under CodecSpec).
C19_ArrayRoundTripButNulls ==
    codec.pc = "scanned" =>
        /\ codec.res.err = "nil" /\ codec.res.rest = <<>>
        /\ codec.res.val = [i \in DOMAIN codec.arr |->
                               IF codec.arr[i] \in {<<>>, snil} THEN NullBytes
                               ELSE codec.arr[i]]

\* the array (set, nil) was written and scanned
C19_Witness ==
    /\ codec.pc = "scanned"
    /\ codec.arr = <<sset, snil>>
    /\ codec.res.val = <<sset, NullBytes>>

\* C20: ReadCommand on a request frame of N >= 1 bulk strings returns the
\* first upper-cased as the name and the other N-1, unchanged and in order,
\* as the arguments, as ReadCommand on the frame as a whole does; on a frame
\* that declares no element, or a negative number of them, it returns the
\* syntax error (checked under CodecSpec).
C20_ReadCommand ==
    /\ codec.pc = "read" =>
          IF Len(codec.arr) >= 1
          THEN /\ codec.res.err = "nil"
               /\ codec.res.cmd = ToUpper(codec.arr[1])
               /\ codec.res.args = Tail(codec.arr)
               /\ codec.res.cmd = ReadCommand(Req(codec.arr)).cmd
               /\ codec.res.args = ReadCommand(Req(codec.arr)).args
          ELSE /\ codec.res.err = ErrInvalidSyntax
               /\ ReadCommand(Req(codec.arr)).err
    /\ ReadCommandBytes(<<"*", "-", "1", CR, LF>>).err = ErrInvalidSyntax

\* the request (set, Ping) was read: the name is SET, the argument still Ping
C20_Witness ==
    /\ codec.pc = "read"
    /\ codec.arr = <<sset, sPing>>
    /\ codec.res.err = "nil"
    /\ codec.res.cmd = sSET /\ codec.res.args = <<sPing>>

\* two node objects give different values, neither of them zero or empty, for
\* one of the options setConsistentOptions compares
Conflict(a, b) ==
    \/ a.Database # 0 /\ b.Database # 0 /\ a.Database # b.Database
    \/ a.Username # "" /\ b.Username # "" /\ a.Username # b.Username
    \/ a.Password # "" /\ b.Password # "" /\ a.Password # b.Password
    \/ a.MaxRetries # 0 /\ b.MaxRetries # 0 /\ a.MaxRetries # b.MaxRetries
    \/ a.MinRetryBackoff # 0 /\ b.MinRetryBackoff # 0
          /\ a.MinRetryBackoff # b.MinRetryBackoff
    \/ a.MaxRetryBackoff # 0 /\ b.MaxRetryBackoff # 0
          /\ a.MaxRetryBackoff # b.MaxRetryBackoff

InconsistentErrors ==
    {"inconsistent db option", "inconsistent username option",
     "inconsistent password option", "inconsistent maxRetries option",
     "inconsistent minRetryBackoff option", "inconsistent maxRetryBackoff option"}

\* a cluster whose nodes are all objects with a socket, in an object that
\* decodes without error
NodeList(o) ==
    /\ o.cluster /\ o.nodes.type = "array" /\ ~o.unknownIn
    /\ \A k \in DOMAIN o.nodes.elems :
          o.nodes.elems[k].type = "object" /\ ~o.nodes.elems[k].Socket.nil

\* readOptions has returned an "inconsistent ... option" error and no options
InconsistentReturned ==
    /\ parse.pc = "done"
    /\ parse.res.err # NilError
    /\ parse.res.err[Len(parse.res.err)] \in InconsistentErrors
    /\ parse.res.opts.nil

\* C21: for every list of cluster node objects, if any two nodes of the list,
\* adjacent or not, give different non-zero values for the same option, option
\* parsing returns an "inconsistent <option>" error and no options value.
C21_AnyTwoNodesInconsistent ==
    (/\ parse.pc = "done"
     /\ NodeList(parse.obj)
     /\ \E i, j \in DOMAIN parse.obj.nodes.elems :
           i < j /\ Conflict(parse.obj.nodes.elems[i], parse.obj.nodes.elems[j]))
    => InconsistentReturned

\* what the code does give: two nodes next to each other that conflict are
\* refused
C21_AdjacentNodesInconsistent ==
    (/\ parse.pc = "done"
     /\ NodeList(parse.obj)
     /\ \E i, j \in DOMAIN parse.obj.nodes.elems :
           j = i + 1 /\ Conflict(parse.obj.nodes.elems[i], parse.obj.nodes.elems[j]))
    => InconsistentReturned

\* two conflicting nodes with a node between them that leaves the option unset
C21_SeparatedConflictAccepted ==
    /\ parse.pc = "done"
    /\ NodeList(parse.obj)
    /\ Len(parse.obj.nodes.elems) = 3
    /\ Conflict(parse.obj.nodes.elems[1], parse.obj.nodes.elems[3])
    /\ parse.res.err = NilError
    /\ ~parse.res.opts.nil

\* an options object the constructor has to refuse: no socket, cluster.nodes
\* not an array or empty or holding a number, a field that does not exist
InvalidObject(o) ==
    \/ ~o.cluster /\ o.node.Socket.nil
    \/ o.cluster /\ o.nodes.type # "array"
    \/ o.cluster /\ o.nodes.type = "array" /\ o.nodes.elems = <<>>
    \/ o.cluster /\ \E k \in DOMAIN o.nodes.elems : o.nodes.elems[k].type # "object"
    \/ o.cluster /\ \E k \in DOMAIN o.nodes.elems : o.nodes.elems[k].Socket.nil
    \/ o.unknownTop
    \/ o.unknownIn

\* C22: constructing a client from an invalid options object ends with an
\* "invalid options" error returned as a value: option parsing never crashes
\* and never returns success for such input.
C22_InvalidObjectRefused ==
    (parse.pc \in {"done", "panicked"} /\ InvalidObject(parse.obj))
    => /\ parse.pc = "done"
       /\ ~parse.res.panic
       /\ parse.res.err # NilError
       /\ parse.res.err[1] = "invalid options; reason: "
       /\ parse.res.opts.nil

\* the part that holds: a field the decoded struct does not have, or a number
\* among the nodes, is refused with an error value
C22_DecodeErrorsRefused ==
    (/\ parse.pc \in {"done", "panicked"}
     /\ parse.options # "map"
     /\ \/ (IF parse.obj.cluster THEN parse.obj.unknownIn ELSE parse.obj.unknownTop)
        \/ \E k \in DOMAIN parse.obj.nodes.elems :
              parse.obj.nodes.elems[k].type # "object")
    => /\ parse.pc = "done"
       /\ parse.res.err # NilError
       /\ parse.res.err[1] = "invalid options; reason: "
       /\ parse.res.opts.nil

\* an object with no socket makes setSocketOptions panic
C22_NoSocketPanics ==
    /\ parse.pc = "panicked"
    /\ ~parse.obj.cluster /\ ~parse.obj.masterName /\ ~parse.obj.unknownTop
    /\ parse.obj.node.Socket.nil

\* an empty cluster.nodes is accepted
C22_EmptyNodesAccepted ==
    /\ parse.pc = "done"
    /\ parse.obj.cluster /\ parse.obj.nodes.type = "array"
    /\ parse.obj.nodes.elems = <<>>
    /\ parse.res.err = NilError /\ ~parse.res.opts.nil

\* ReadCommand accepts the frame
Accepts(f) == ~ReadCommand(f).err

\* the requests decoded so far on connection c, in the order they were sent
DecodedRequests(c) == SelectSeq(SubSeq(net[c].sent, 1, net[c].read), Accepts)

\* C23: with connections sending requests concurrently, the command history
\* holds exactly one entry for every decoded request (all but a request that
\* its goroutine has decoded and is about to record), and for each connection
\* the entries that came from it are its requests in the order it sent them.
C23_OneEntryPerDecodedRequest ==
    /\ Len(commandsHistory) = Len(dispatched)
    /\ \A i \in DOMAIN dispatched : dispatched[i].c \in Conns
    /\ \A c \in Conns :
          LET es == EntriesOf(c, Len(dispatched))
              ds == DecodedRequests(c)
              pending == IF conn[c].pc \in {"recordLock", "record"} THEN 1 ELSE 0
          IN /\ Len(es) = Len(ds) - pending
             /\ \A j \in DOMAIN es : commandsHistory[es[j]] = Parsed(ds[j].elems)

\* two connections are in dispatch at the same time, each with its request
\* in the history
C23_Witness ==
    \E c, d \in Conns :
        /\ c # d /\ InDispatch(c) /\ InDispatch(d)
        /\ Len(commandsHistory) = 2
        /\ dispatched[1].c = d /\ dispatched[2].c = c
        /\ commandsHistory[1] # commandsHistory[2]

\* the requests of connection c that are recorded and not yet answered on
\* the transport
InFlight(c) == Len(EntriesOf(c, Len(dispatched))) - track[c].served

\* C24: on one connection the serving loop is strictly sequential: when a
\* request is parsed the responses to all earlier requests of the connection
\* have been flushed, at most one request of the connection is in dispatch at
\* any time, and the responses are on the stream in the order of the requests.
C24_OneRequestAtATime ==
    \A c \in Conns :
        LET es == EntriesOf(c, Len(dispatched)) IN
        /\ InFlight(c) \in {0, 1}
        /\ conn[c].pc \in {"parse", "recordLock", "record"} =>
              InFlight(c) = 0 /\ conn[c].writer = <<>>
        /\ InFlight(c) = 1 =>
              /\ conn[c].pc \in {"lookupLock", "lookup", "countLock", "count",
                                 "handler", "flush", "panicked"}
              /\ track[c].idx = es[Len(es)]
        /\ net[c].out = Flatten([k \in 1..track[c].served |-> FramesFor(es[k])])

\* the second request of a connection has been parsed: the response to the
\* first is on the transport
C24_Witness ==
    \E c \in Conns :
        /\ conn[c].pc = "recordLock"
        /\ net[c].read = 2
        /\ track[c].served = 1
        /\ net[c].out # <<>>

\* C25: every parsed request is in the command history, name first and then
\* its arguments, before its handler is looked up and invoked, whether or not
\* a handler exists: from the lookup to the flush of its response the request
\* is the last entry its connection has contributed.
C25_RecordedBeforeLookup ==
    \A c \in Conns :
        conn[c].pc \in {"lookupLock", "lookup", "countLock", "count", "handler", "flush"} =>
            LET es == EntriesOf(c, Len(dispatched)) IN
            /\ es # <<>>
            /\ track[c].idx = es[Len(es)]
            /\ commandsHistory[es[Len(es)]] = <<conn[c].cmd>> \o conn[c].args
            /\ commandsHistory[es[Len(es)]] = Parsed(net[c].sent[net[c].read].elems)

\* a handler runs for a request that is its connection's last entry and not
\* the last of the history; the request after it has no handler
C25_Witness ==
    \E c, d \in Conns :
        /\ c # d
        /\ conn[c].pc = "handler" /\ track[c].idx = 1
        /\ conn[d].pc = "flush" /\ track[d].idx = 2
        /\ dispatched[2].st = "unknown"
        /\ Len(commandsHistory) = 2

\* handleConnection has returned, or has been unwound by a panic
LoopExited(c) == conn[c].pc \in {"untrackLock", "untrack", "exit", "done", "panicked"}

\* l.Accept() has returned c and the accept loop has not yet added it
JustAccepted(c) == acceptLoop.nc = c /\ acceptLoop.pc \in {"trackLock", "track"}

\* a connection leaves the set only when its serving loop has exited
RemovedAfterLoop ==
    \A c \in Conns :
        (c \in connections /\ c \notin connections') => conn[c].pc = "untrack"

\* C26, as stated: in every reachable state every accepted connection whose
\* serving loop has not exited is in the tracked-connection set; a connection
\* is removed from the set only after its serving loop has exited.
C26_AcceptedAreTracked ==
    /\ [](\A c \in Conns : (Dialled(c) /\ ~LoopExited(c)) => c \in connections)
    /\ [][RemovedAfterLoop]_vars

\* C26, amended: ... every accepted connection whose serving loop has not
\* exited is in the set, except the one l.Accept() has just returned, until
\* the accept loop has added it under the lock, which it does before it
\* starts the serving loop of the connection; a connection is removed from the
\* set only after its serving loop has exited.
C26_AcceptedAreTrackedBeforeServed ==
    /\ [](\A c \in Conns :
             (Dialled(c) /\ ~LoopExited(c)) =>
                 /\ c \in connections \/ JustAccepted(c)
                 /\ conn[c].pc # "idle" => c \in connections)
    /\ [][RemovedAfterLoop]_vars

\* one connection has left the set after its loop ended, while another is
\* being served and is in the set
C26_Witness ==
    \E c, d \in Conns :
        /\ conn[c].pc = "exit" /\ c \notin connections
        /\ InDispatch(d) /\ d \in connections

\* the tasks that are at a read or a write of rs.handlers, rs.commandsHistory,
\* rs.processedCommands or rs.connectionCount
Accessing ==
    {t \in {TestTask} : test.pc \in {"registerLocked", "introspect"}}
    \cup {t \in {AcceptTask} : acceptLoop.pc = "track"}
    \cup {ConnTask(c) : c \in {d \in Conns : conn[d].pc \in {"record", "lookup", "count"}}}

\* C27: every read and every write of the handler registry, the command
\* history, the dispatched-command counter and the connection counter is made
\* by the task that holds the server lock; no two tasks are at such an access
\* at the same time, and none of the four changes in a step of a task that
\* does not hold the lock.
C27_SharedStateUnderLock ==
    /\ [](\A t \in Accessing : mu = t)
    /\ [][(\/ handlers' # handlers
           \/ commandsHistory' # commandsHistory
           \/ processedCommands' # processedCommands
           \/ connectionCount' # connectionCount)
          => (mu \in Accessing /\ mu' = Free)]_vars

\* one goroutine counts its command under the lock while another waits for
\* the lock to record its request
C27_Witness ==
    \E c, d \in Conns :
        /\ conn[c].pc = "count" /\ mu = ConnTask(c)
        /\ conn[d].pc = "recordLock"

\* the test is inside an introspection operation
IntrospectPcs == {"introspect", "addr", "tlsCertificate"}

\* a step of an introspection operation leaves the server and its
\* connections as they are
IntrospectionReadsOnly ==
    (test.pc \in IntrospectPcs /\ test'.pc # test.pc) =>
        UNCHANGED <<serverVars, acceptLoop, conn, net, crashed, ghostVars>>

\* C28, as stated: every introspection operation, Addr and TLSCertificate
\* included, makes its read while it holds the server lock, and changes no
\* server state.
C28_IntrospectionHoldsLock ==
    /\ [](test.pc \in IntrospectPcs => mu = TestTask)
    /\ [][IntrospectionReadsOnly]_vars

\* C28, amended: HandledCommandsCount, HandledConnectionsCount and
\* GotCommands make their read while they hold the server lock; Addr and
\* TLSCertificate return their field without taking the lock, whoever holds
\* it; no introspection operation changes server state.
C28_CountersHoldLockAddrDoesNot ==
    /\ [](test.pc = "introspect" => mu = TestTask)
    /\ [][(test.pc \in {"addr", "tlsCertificate"} /\ test'.pc # test.pc) => mu' = mu]_vars
    /\ [][IntrospectionReadsOnly]_vars

\* Addr is about to read while a connection goroutine holds the lock
C28_Witness ==
    \E c \in Conns :
        /\ test.pc = "addr"
        /\ conn[c].pc = "record" /\ mu = ConnTask(c)

\* C29: when the transport is at its end or fails while the serving loop
\* waits for a request, no byte is emitted to the transport for that event,
\* then or later (the client never receives a protocol error), and the loop
\* is left at once for the close of the connection, which has its transport
\* closed when its goroutine is done.
C29_ReadFailureClosesSilently ==
    /\ [](\A c \in Conns :
             track[c].failure = "io" =>
                 /\ conn[c].pc \in ClosingPcs
                 /\ ProtocolErrorsReceived(c) = 0
                 /\ conn[c].pc = "done" => ~net[c].open)
    /\ [][\A c \in Conns :
             track'[c].failure = "io" => net'[c].out = net[c].out]_vars

\* a client was answered once and then hung up: its connection is closed and
\* the answer is all it ever received
C29_Witness ==
    \E c \in Conns :
        /\ track[c].failure = "io" /\ HungUp(c)
        /\ conn[c].pc = "done" /\ ~net[c].open
        /\ track[c].served = 1 /\ Len(net[c].out) = 1

\* C30: ReadCommand returns a complete command, with exactly the declared
\* number of elements, or an error and no command, never a part of a command:
\* a request cut short, a first byte that is not the array prefix, an element
\* line that does not start with the bulk-string prefix and a length that is
\* not a number all give an error and no command.
C30_CommandOrError ==
    /\ codec.pc \in {"read", "readDamaged"} =>
          IF codec.res.err = "nil"
          THEN 1 + Len(codec.res.args) = Len(codec.arr)
          ELSE codec.res.cmd = <<>> /\ codec.res.args = <<>>
    /\ codec.pc = "readDamaged" =>
          codec.res.err # "nil" /\ codec.res.cmd = <<>> /\ codec.res.args = <<>>

\* the request `set Ping` arrived with its first element whole and its second
\* cut in the middle, and was refused
C30_Witness ==
    /\ codec.pc = "readDamaged"
    /\ codec.arr = <<sset, sPing>>
    /\ codec.wire = LenBytes(2) \o BulkStringBytes(sset) \o <<"$", "4", CR, LF, "P", "i">>
    /\ codec.res.err = "EOF"
    /\ codec.res.cmd = <<>> /\ codec.res.args = <<>>

\* what ReadCommand has to return for the request of an array of strings
Expected(arr) ==
    IF Len(arr) >= 1
    THEN [err |-> "nil", cmd |-> ToUpper(arr[1]), args |-> Tail(arr)]
    ELSE [err |-> ErrInvalidSyntax, cmd |-> <<>>, args |-> <<>>]

\* C31: decoding a bulk string of declared length L >= 0 takes exactly the
\* L + 2 bytes after its header line and returns the first L of them, so a
\* payload that holds CR or LF comes back unchanged; after a request is
\* decoded the reader is at the first byte of the next one, and two requests
\* sent back to back are each decoded whole, in order.
C31_BackToBackRequests ==
    /\ codec.pc = "stream" =>
          \A s \in CodecStrings :
              scanBulkString(BulkStringBytes(s) \o codec.wire) = ScanOk(s, codec.wire)
    /\ codec.pc \in {"first", "second"} =>
          /\ codec.res[1].ret = Expected(codec.arr)
          /\ codec.res[1].rest = RequestBytes(codec.next)
    /\ codec.pc = "second" =>
          /\ codec.res[2].ret = Expected(codec.next)
          /\ codec.res[2].rest = <<>>
          /\ codec.wire = <<>>

\* a request whose argument holds CR LF, and the request sent right after it,
\* have both been decoded
C31_Witness ==
    /\ codec.pc = "second"
    /\ codec.arr = <<sset, <<"a", CR, LF>>>>
    /\ codec.next = <<sPing>>
    /\ codec.res[1].ret.args = <<<<"a", CR, LF>>>>
    /\ codec.res[2].ret.cmd = sPING

\* C32: for every text, the frame written by WriteSimpleString or WriteError
\* is the prefix of its type, the text with each whitespace character
\* replaced by one space and every other character unchanged, and CRLF; the
\* frame holds no CR and no LF but the last two bytes.
C32_InlineFrames ==
    codec.pc = "line" =>
        LET s == codec.res.v
            w == codec.wire
        IN /\ Len(w) = Len(s) + 3
           /\ w[1] = codec.res.t /\ w[1] \in {"+", "-"}
           /\ \A i \in DOMAIN s :
                 w[i + 1] = IF s[i] \in {" ", "\t", CR, LF} THEN " " ELSE s[i]
           /\ w[Len(w) - 1] = CR /\ w[Len(w)] = LF
           /\ \A i \in 1..(Len(w) - 2) : w[i] \notin {CR, LF}

\* an error whose text holds a tab, a CR and an LF has been written
C32_Witness ==
    /\ codec.pc = "line"
    /\ codec.res = WriteError(<<"\t", CR, LF>>)
    /\ codec.wire = <<"-", " ", " ", " ", CR, LF>>

\* C33: for every list of strings WriteArray writes a header whose count is
\* the number of elements and then exactly that many frames, in the order of
\* the elements: the null frame for an element that is the empty string or
\* the string nil, and for no other; for the others a bulk string whose
\* declared length is the length of the element.
C33_WriteArrayFrames ==
    codec.pc = "written" =>
        LET arr == codec.arr
            fs  == Fprintfs(WriteArray(arr))
        IN /\ Len(fs) = 1 + Len(arr)
           /\ fs[1] = <<"*">> \o Itoa(Len(arr)) \o <<CR, LF>>
           /\ \A i \in DOMAIN arr :
                 /\ (fs[i + 1] = <<"$", "-", "1", CR, LF>>) <=> (arr[i] \in {<<>>, snil})
                 /\ arr[i] \notin {<<>>, snil} =>
                       fs[i + 1] = <<"$">> \o Itoa(Len(arr[i])) \o <<CR, LF>>
                                       \o arr[i] \o <<CR, LF>>
           /\ codec.wire = Flatten(fs)

\* the array of the string nil and a string holding CR LF has been written
C33_Witness ==
    /\ codec.pc = "written"
    /\ codec.arr = <<snil, <<"a", CR, LF>>>>
    /\ codec.wire = <<"*", "2", CR, LF, "$", "-", "1", CR, LF,
                      "$", "3", CR, LF, "a", CR, LF, CR, LF>>

\* C34: Close never drives a connection goroutine into the failure of Flush:
\* whenever the sweep closes the transport of a connection that has a
\* request between parse and flush, the goroutine does not panic and the
\* process is not ended.
C34_CloseNeverFailsFlush ==
    /\ ~crashed
    /\ \A c \in Conns : conn[c].pc # "panicked"

\* C35: the baseline handlers for COMMAND and PING are registered before a
\* request of an accepted connection is looked up: no request whose command
\* is PING or COMMAND gets the unknown-command error.
C35_BaselineBeforeDispatch ==
    \A i \in DOMAIN dispatched :
        (i \in DOMAIN commandsHistory /\ commandsHistory[i] # <<>>
            /\ commandsHistory[i][1] \in {sPING, sCOMMAND})
        => dispatched[i].st # "unknown"

\* the requests of connection c that have been taken to a handler
HandledBy(c) ==
    Cardinality({i \in DOMAIN dispatched :
                    dispatched[i].c = c /\ dispatched[i].st = "handled"})

\* C36: the goroutine of a connection does not hold rs.Mutex while the
\* handler of its request runs, so that a call the handler makes of
\* RegisterCommandHandler or of an introspection function gets the lock and
\* returns; and the count the handler reads includes its own request, which
\* is in the history too (checked under ReentrantSpec).
C36_HandlerCallsServer ==
    /\ [](\A c \in Conns :
            /\ conn[c].pc \in {"handler"} \cup HandlerCalls => mu # ConnTask(c)
            /\ conn[c].pc \in HandlerPcs =>
                  /\ HandledCommandsCount >= HandledBy(c)
                  /\ HandledBy(c) >= 1
                  /\ dispatched[track[c].idx].c = c
                  /\ dispatched[track[c].idx].st = "handled"
                  /\ GotCommands[track[c].idx] = <<conn[c].cmd>> \o conn[c].args)
    /\ \A c \in Conns : (conn[c].pc \in HandlerCalls) ~> (conn[c].pc = "handler")

\* a handler that has registered a handler from its body holds the lock in
\* an introspection call, and the count it reads is its own request
C36_Witness ==
    \E c \in Conns :
        /\ conn[c].pc = "hIntrospectLocked" /\ mu = ConnTask(c)
        /\ Len(regLog) = 4
        /\ HandledCommandsCount = 1 /\ HandledBy(c) = 1

\* C37: Close is idempotent: a second call of Close, and a call of Close on
\* a server that was never started, does not crash, does not wait in
\* rs.waitGroup.Wait(), and leaves the history, the counters and the
\* registry as they are (checked under CloseTwiceSpec).
C37_CloseIsIdempotent ==
    /\ [](test.pc \in {"closeAgainLocked", "waitAgain"} =>
             /\ ~crashed
             /\ test.pc = "waitAgain" => waitGroup = 0)
    /\ [](test.pc \in {"closeLocked", "wait", "closed"} /\ acceptLoop.pc = "none" =>
             /\ ~crashed /\ waitGroup = 0
             /\ commandsHistory = <<>> /\ handlers = <<>>
             /\ processedCommands = 0 /\ connectionCount = 0)
    /\ [][test.pc \in CloseAgainPcs =>
             UNCHANGED <<commandsHistory, processedCommands, connectionCount, handlers>>]_vars

====
